---- MODULE Spec2Model ----
(***************************************************************************)
(* A model of the drought-monitoring store: the dataset registry and the   *)
(* per-dataset wide time-series tables written by import_data.py, the      *)
(* per-process lru_cache lookups and the read operations of                *)
(* backend/app/datasets_store.py, and the trend classification of          *)
(* backend/app/utils.py.                                                   *)
(*                                                                         *)
(* Conventions                                                             *)
(*   - a string that the code inspects character by character (dataset     *)
(*     keys, index names, CSV header names) is a sequence of one-character *)
(*     strings, so that strip(), lower() and the key regex are computed;   *)
(*   - a month-start DATE is the month ordinal year*12 + (month-1);        *)
(*   - a DOUBLE PRECISION value is an integer number of thousandths        *)
(*     (-0.8 is -800, a p-value of 0.05 is 50); a nullable value is the    *)
(*     empty tuple (SQL NULL, Python None) or the one-element tuple <<v>>. *)
(***************************************************************************)
EXTENDS Integers, Sequences, FiniteSets, TLC

VARIABLES
    datasets,   \* rows of table datasets: the set of stored dataset_key values
    dsBounds,   \* columns min_date, max_date of table datasets: key -> bounds
    features,   \* rows of table features: <<dataset_key, feature_id>> -> row
    tables,     \* the ts_<key> tables: table name -> [cols, rows]
    keyCache,   \* lru_cache of resolve_dataset_key: argument -> stored key
    idxCache,   \* lru_cache of get_available_indices: argument -> column list
    cache,      \* the result cache of cache.py: cache key -> cached value
    imp,        \* the importer process (import_data.py main): pc and locals
    resp,       \* the last response produced by a read operation
    answered,   \* history: (argument, key) pairs resolve_dataset_key returned
                \* since the registry last changed
    engineRuns, \* history: the requests that ran the trend engine since the
                \* series tables last changed
    rebuilt     \* history: what the last completed replace run read, and the
                \* counts and bounds it left

vars ==
    <<datasets, dsBounds, features, tables, keyCache, idxCache, cache, imp, resp,
      answered, engineRuns, rebuilt>>

NULL == <<>>

Some(v) == <<v>>

EmptyMap == [x \in {} |-> x]

----------------------------------------------------------------------------
(* Strings: strip(), lower(), the key regex, path order                    *)

UpperToLower == ("S" :> "s") @@ ("T" :> "t") @@ ("P" :> "p") @@ ("I" :> "i")

UpperLetters == DOMAIN UpperToLower

LowerLetters ==
    {"a", "c", "d", "e", "f", "g", "h", "i", "m", "n", "o", "p", "r", "s", "t",
     "u", "y"}

Digits == {"3", "6"}

Whitespace == {" "}

\* The characters that \w of [A-Za-z0-9_] and ch.isalnum() or ch == "_" accept.
IsWordChar(c) == c \in UpperLetters \cup LowerLetters \cup Digits \cup {"_"}

\* ASCII codes of the characters that occur in folder names.
CharCode ==
    (" " :> 32) @@ ("-" :> 45) @@ ("S" :> 83) @@ ("T" :> 84) @@ ("_" :> 95)
    @@ ("p" :> 112) @@ ("s" :> 115) @@ ("t" :> 116)

\* str.lower()
Lower(s) ==
    [i \in DOMAIN s |-> IF s[i] \in UpperLetters THEN UpperToLower[s[i]] ELSE s[i]]

RECURSIVE LStrip(_)
LStrip(s) ==
    IF s # <<>> /\ Head(s) \in Whitespace THEN LStrip(Tail(s)) ELSE s

RECURSIVE RStrip(_)
RStrip(s) ==
    IF s # <<>> /\ s[Len(s)] \in Whitespace
    THEN RStrip(SubSeq(s, 1, Len(s) - 1))
    ELSE s

\* The slip: only the leading whitespace is removed.
StripLeading(s) == LStrip(s)

\* str.strip()
Strip(s) == RStrip(LStrip(s))

\* re.match(r"^[A-Za-z0-9_]+$", key) on a non-empty key
MatchesKeyRe(key) == key # <<>> /\ \A i \in DOMAIN key : IsWordChar(key[i])

\* Order of two strings as Python compares them (by code point).
RECURSIVE StrLess(_, _)
StrLess(a, b) ==
    IF a = <<>> THEN b # <<>>
    ELSE IF b = <<>> THEN FALSE
    ELSE IF Head(a) # Head(b) THEN CharCode[Head(a)] < CharCode[Head(b)]
    ELSE StrLess(Tail(a), Tail(b))

\* sorted(...) of a set of strings
RECURSIVE Sorted(_)
Sorted(S) ==
    IF S = {} THEN <<>>
    ELSE LET least == CHOOSE x \in S : \A y \in S \ {x} : StrLess(x, y)
         IN  <<least>> \o Sorted(S \ {least})

\* The element set of a sequence.
Range(s) == {s[i] : i \in DOMAIN s}

\* [x for x in s if Keep(x)]
RECURSIVE SelectNotIn(_, _)
SelectNotIn(s, excluded) ==
    IF s = <<>> THEN <<>>
    ELSE IF Head(s) \in excluded THEN SelectNotIn(Tail(s), excluded)
    ELSE <<Head(s)>> \o SelectNotIn(Tail(s), excluded)

\* Names that the importer and the store give a meaning.
n_feature_id == <<"f", "e", "a", "t", "u", "r", "e", "_", "i", "d">>
n_station_id == <<"s", "t", "a", "t", "i", "o", "n", "_", "i", "d">>
n_region_id == <<"r", "e", "g", "i", "o", "n", "_", "i", "d">>
n_id == <<"i", "d">>
n_code == <<"c", "o", "d", "e">>
n_gid == <<"g", "i", "d">>
n_fid == <<"f", "i", "d">>
n_name == <<"n", "a", "m", "e">>
n_date == <<"d", "a", "t", "e">>
n_year == <<"y", "e", "a", "r">>
n_month == <<"m", "o", "n", "t", "h">>
n_yyyymm == <<"y", "y", "y", "y", "m", "m">>
n_spi3 == <<"s", "p", "i", "3">>
n_spi6 == <<"s", "p", "i", "6">>

----------------------------------------------------------------------------
(* The importer: import_data.py                                            *)

\* safe_dataset_key: the stripped key, or <<>> standing for the ValueError
\* (no accepted key is empty).
safe_dataset_key(value) ==
    LET key == Strip(value)
    IN  IF MatchesKeyRe(key) THEN key ELSE <<>>

\* The table that the statements naming ts_<key> act on: PostgreSQL folds the
\* unquoted identifier to lower case.
FoldedTsName(key) == <<"t", "s", "_">> \o Lower(key)

\* detect_id_column: the first candidate present in the header, else the
\* first column.
IdCandidates ==
    <<n_feature_id, n_station_id, n_region_id, n_id, n_code, n_gid, n_fid, n_name>>

detect_id_column(header) ==
    LET lower == [i \in DOMAIN header |-> Lower(header[i])]
        hits  == {k \in DOMAIN IdCandidates : IdCandidates[k] \in Range(lower)}
    IN  IF hits = {} THEN header[1]
        ELSE LET cand == IdCandidates[CHOOSE k \in hits : \A j \in hits : k <= j]
                 pos  == CHOOSE i \in DOMAIN lower :
                            lower[i] = cand /\ \A j \in DOMAIN lower : lower[j] = cand => i <= j
             IN  header[pos]

\* detect_date_columns: the lower-cased names of the date columns and the mode,
\* or mode "none" for None.
detect_date_columns(header) ==
    LET lower == Range([i \in DOMAIN header |-> Lower(header[i])])
    IN  IF n_date \in lower THEN [mode |-> "date", names |-> {n_date}]
        ELSE IF n_month \in lower /\ n_year \in lower
             THEN [mode |-> "ym", names |-> {n_year, n_month}]
        ELSE IF n_yyyymm \in lower THEN [mode |-> "yyyymm", names |-> {n_yyyymm}]
        ELSE [mode |-> "none", names |-> {}]

\* import_one_dataset, lines 448-458: the index columns are the lower-cased
\* header names that are neither id nor date fields.
IndexColsOf(header) ==
    LET lower   == [i \in DOMAIN header |-> Lower(header[i])]
        exclude == {Lower(detect_id_column(header)), n_feature_id, n_station_id,
                    n_region_id, n_id, n_code}
                   \cup detect_date_columns(header).names
    IN  SelectNotIn(lower, exclude)

\* create_ts_table, lines 195-204: the validated column list; unsafe is TRUE
\* when a name fails the alnum/underscore test (ValueError).
SkippedByCreate ==
    {n_feature_id, n_station_id, n_region_id, n_id, n_date, n_year, n_month, n_yyyymm}

\* The slip: the names are cleaned and filtered but not tested.
SafeColsOfUntested(index_columns) ==
    [unsafe |-> FALSE,
     cols   |-> SelectNotIn([i \in DOMAIN index_columns |-> Lower(Strip(index_columns[i]))],
                            SkippedByCreate \cup {<<>>})]

SafeColsOf(index_columns) ==
    LET cleaned == [i \in DOMAIN index_columns |-> Lower(Strip(index_columns[i]))]
    IN  [unsafe |-> \E i \in DOMAIN cleaned :
                       cleaned[i] # <<>> /\ \E j \in DOMAIN cleaned[i] : ~IsWordChar(cleaned[i][j]),
         cols   |-> SelectNotIn(cleaned, SkippedByCreate \cup {<<>>})]

\* ingest_timeseries, lines 310-312: the index columns named by COPY.
CopyColsOf(index_columns) ==
    SelectNotIn([i \in DOMAIN index_columns |-> Lower(Strip(index_columns[i]))],
                {n_feature_id, n_date})

HasDuplicates(s) == \E i, j \in DOMAIN s : i < j /\ s[i] = s[j]

ImpIdle(err) == [pc |-> "idle", err |-> err]

\* The slip: the series are loaded right after the table is created, the
\* features left out.
StepAfterSkipsFeatures(pc) ==
    CASE pc = "dataset" -> "create_ts"
      [] pc = "create_ts" -> "ingest"
      [] pc = "features" -> "ingest"
      [] pc = "ingest" -> "bounds"
      [] pc = "bounds" -> "precompute"
      [] pc = "precompute" -> "dataset"

\* import_one_dataset, lines 461-506: the step that follows a completed
\* step. "dataset" is the registration (with the header checks before it),
\* then create_ts_table, ingest_features, ingest_timeseries, finalize_bounds
\* and precompute_dataset_trends, after which main takes the next dataset.
StepAfter(pc) ==
    CASE pc = "dataset" -> "create_ts"
      [] pc = "create_ts" -> "features"
      [] pc = "features" -> "ingest"
      [] pc = "ingest" -> "bounds"
      [] pc = "bounds" -> "precompute"
      [] pc = "precompute" -> "dataset"

\* No response is in flight: a request is answered before the next event.
NoResp == [op |-> "none"]

\* An importer step: the answers resolve_dataset_key gave are forgotten when
\* the registry changes, the runs of the trend engine when a series table
\* changes.
ReadersReset ==
    /\ UNCHANGED resp
    /\ answered' = IF datasets' = datasets THEN answered ELSE {}
    /\ engineRuns' = IF tables' = tables THEN engineRuns ELSE {}

\* The slip: create_base_schema drops nothing.
BaseSchemaKeeps(replace, old) == old

\* create_base_schema, lines 140-155: with replace the ts_ tables, features
\* and datasets are dropped; old is the content of one of them.
BaseSchema(replace, old) == IF replace THEN EmptyMap ELSE old

\* main, lines 516-530: discover the dataset folders, then create_base_schema.
\* dirSets are the sets of folder names that may be found under the data
\* directory. read collects the files the run has loaded.
ImportStart(dirSets) ==
    /\ resp = NoResp
    /\ imp.pc = "idle"
    /\ \E dirs \in dirSets, replace \in BOOLEAN :
          IF \E d \in dirs : safe_dataset_key(d) = <<>>
          THEN /\ imp' = ImpIdle("Unsafe dataset key")
               /\ UNCHANGED <<datasets, dsBounds, features, tables>>
          ELSE /\ imp' = [pc |-> "dataset", err |-> "", replace |-> replace,
                          queue |-> [i \in 1..Cardinality(dirs) |->
                                        safe_dataset_key(Sorted(dirs)[i])],
                          read |-> <<>>]
               /\ datasets' = IF replace THEN {} ELSE datasets
               /\ dsBounds' = BaseSchema(replace, dsBounds)
               /\ features' = BaseSchema(replace, features)
               /\ tables' = BaseSchema(replace, tables)
    /\ ReadersReset
    /\ UNCHANGED <<keyCache, idxCache, cache, rebuilt>>

\* main, lines 532-535: every discovered dataset was imported.
ImportDone ==
    /\ resp = NoResp
    /\ imp.pc = "dataset"
    /\ imp.queue = <<>>
    /\ imp' = ImpIdle("")
    /\ UNCHANGED <<datasets, dsBounds, features, tables, keyCache, idxCache, cache,
                   rebuilt>>
    /\ ReadersReset

\* What the claims about a rebuild compare: the number of features, the
\* number of series rows of every table, the dataset bounds and the bounds of
\* every feature.
StoreSummary ==
    [features |-> Cardinality(DOMAIN features),
     rows |-> [t \in DOMAIN tables |-> Cardinality(DOMAIN tables[t].rows)],
     dataset_bounds |-> dsBounds,
     feature_bounds |-> [c \in DOMAIN features |->
                           [min_date |-> features[c].min_date,
                            max_date |-> features[c].max_date]]]

\* main returning as in ImportDone, observed: rebuilt remembers the files the
\* last completed --replace run read and the store it left.
RebuildDone ==
    /\ resp = NoResp
    /\ imp.pc = "dataset"
    /\ imp.queue = <<>>
    /\ imp' = ImpIdle("")
    /\ rebuilt' = IF imp.replace
                  THEN Some([read |-> imp.read, summary |-> StoreSummary])
                  ELSE rebuilt
    /\ UNCHANGED <<datasets, dsBounds, features, tables, keyCache, idxCache, cache>>
    /\ ReadersReset

\* import_one_dataset, lines 441-473: read the CSV header, then register the
\* dataset; an existing row keeps its bounds. headers are the CSV headers a
\* folder may hold.
RegisterDataset(headers) ==
    /\ resp = NoResp
    /\ imp.pc = "dataset"
    /\ imp.queue # <<>>
    /\ \E header \in headers :
          IF detect_date_columns(header).mode = "none"
          THEN /\ imp' = ImpIdle("CSV must have date columns")
               /\ UNCHANGED <<datasets, dsBounds>>
          ELSE /\ datasets' = datasets \cup {Head(imp.queue)}
               /\ dsBounds' =
                     IF Head(imp.queue) \in DOMAIN dsBounds THEN dsBounds
                     ELSE (Head(imp.queue) :> [min_date |-> NULL, max_date |-> NULL])
                          @@ dsBounds
               /\ imp' = [pc |-> StepAfter(imp.pc), err |-> "", replace |-> imp.replace,
                          queue |-> imp.queue, read |-> imp.read,
                          key |-> Head(imp.queue), header |-> header,
                          index_cols |-> IndexColsOf(header)]
    /\ UNCHANGED <<features, tables, keyCache, idxCache, cache, rebuilt>>
    /\ ReadersReset

\* create_ts_table: one transaction; an unsafe name raises before it, a
\* duplicate column makes CREATE TABLE fail and rolls the DROP back.
CreateTsTable ==
    /\ resp = NoResp
    /\ imp.pc = "create_ts"
    /\ LET safe  == SafeColsOf(imp.index_cols)
           table == FoldedTsName(imp.key)
           kept  == IF imp.replace THEN [t \in DOMAIN tables \ {table} |-> tables[t]]
                    ELSE tables
       IN  IF safe.unsafe
           THEN /\ imp' = ImpIdle("Unsafe column name in CSV header")
                /\ UNCHANGED tables
           ELSE IF HasDuplicates(safe.cols)
           THEN /\ imp' = ImpIdle("sql: column specified more than once")
                /\ UNCHANGED tables
           ELSE /\ tables' = IF table \in DOMAIN kept THEN kept
                             ELSE (table :> [cols |-> Range(safe.cols),
                                             rows |-> EmptyMap]) @@ kept
                /\ imp' = [imp EXCEPT !.pc = StepAfter(imp.pc)]
    /\ UNCHANGED <<datasets, dsBounds, features, keyCache, idxCache, cache, rebuilt>>
    /\ ReadersReset

\* ingest_features, lines 277-295: INSERT ... ON CONFLICT (dataset_key,
\* feature_id) DO UPDATE SET name, props, geom; the bounds of an existing row
\* stay. geojsons are the files a folder may hold, each a function from the
\* feature ids it yields to their geometries (name and props left out).
IngestFeatures(geojsons) ==
    /\ resp = NoResp
    /\ imp.pc = "features"
    /\ \E geojson \in geojsons :
          /\ features' =
                [cell \in {<<imp.key, fid>> : fid \in DOMAIN geojson} |->
                    [geom |-> geojson[cell[2]],
                     min_date |-> IF cell \in DOMAIN features
                                  THEN features[cell].min_date ELSE NULL,
                     max_date |-> IF cell \in DOMAIN features
                                  THEN features[cell].max_date ELSE NULL]]
                @@ features
          /\ imp' = [imp EXCEPT !.pc = StepAfter(imp.pc)] @@ [geojson |-> geojson]
    /\ UNCHANGED <<datasets, dsBounds, tables, keyCache, idxCache, cache, rebuilt>>
    /\ ReadersReset

\* The rows of a CSV file whose id and date fields are well formed: a value
\* or an empty field for every index column, for some (feature, month) pairs.
CsvContents(fids, months, vals, cols) ==
    UNION {[cells -> [cols -> vals]] : cells \in SUBSET (fids \X months)}

\* ingest_timeseries for a file with fewer than five chunks: every chunk is
\* COPYed in one transaction, committed at the end; a COPY that names a column
\* the table lacks, or a row whose (feature_id, date) exists, fails the
\* transaction and nothing is kept. No COPY is issued for a file without
\* rows (lines 324 and 368).
IngestTimeseries(fids, months, vals) ==
    /\ resp = NoResp
    /\ imp.pc = "ingest"
    /\ LET table == FoldedTsName(imp.key)
           copy  == Range(CopyColsOf(imp.index_cols))
           t     == tables[table]
       IN  \E csv \in CsvContents(fids, months, vals, copy) :
              IF DOMAIN csv # {} /\ ~(copy \subseteq t.cols)
              THEN /\ imp' = ImpIdle("sql: column does not exist")
                   /\ UNCHANGED tables
              ELSE IF DOMAIN csv \cap DOMAIN t.rows # {}
              THEN /\ imp' = ImpIdle("sql: duplicate key")
                   /\ UNCHANGED tables
              ELSE /\ tables' =
                         [tables EXCEPT ![table].rows =
                            [cell \in DOMAIN csv |->
                               [c \in t.cols |-> IF c \in copy THEN csv[cell][c] ELSE NULL]]
                            @@ t.rows]
                   /\ imp' = [imp EXCEPT !.pc = StepAfter(imp.pc)] @@ [csv |-> csv]
    /\ UNCHANGED <<datasets, dsBounds, features, keyCache, idxCache, cache, rebuilt>>
    /\ ReadersReset

\* The sequences over S of length up to n.
RECURSIVE SeqsUpTo(_, _)
SeqsUpTo(S, n) ==
    IF n = 0 THEN {<<>>}
    ELSE LET shorter == SeqsUpTo(S, n - 1)
         IN  shorter \cup {Append(s, x) : s \in {t \in shorter : Len(t) = n - 1}, x \in S}

\* Decimal digits, and format(n, "0<width>d") as a string of characters.
DecimalDigits == <<"0", "1", "2", "3", "4", "5", "6", "7", "8", "9">>

IsDigit(c) == \E i \in DOMAIN DecimalDigits : DecimalDigits[i] = c

DigitValue(c) == (CHOOSE i \in DOMAIN DecimalDigits : DecimalDigits[i] = c) - 1

RECURSIVE Dec(_)
Dec(n) == IF n < 10 THEN <<DecimalDigits[n + 1]>>
          ELSE Dec(n \div 10) \o <<DecimalDigits[(n % 10) + 1]>>

RECURSIVE ZeroPad(_, _)
ZeroPad(str, width) == IF Len(str) >= width THEN str ELSE ZeroPad(<<"0">> \o str, width)

Fmt(n, width) ==
    IF n >= 0 THEN ZeroPad(Dec(n), width) ELSE <<"-">> \o ZeroPad(Dec(-n), width - 1)

RECURSIVE DigitsValue(_)
DigitsValue(str) ==
    IF str = <<>> THEN 0
    ELSE 10 * DigitsValue(SubSeq(str, 1, Len(str) - 1)) + DigitValue(str[Len(str)])

\* The slip: the day of the month is kept.
month_start_keeps_day(dt) ==
    IF dt = NULL THEN <<>>
    ELSE Fmt(dt[1], 4) \o <<"-">> \o Fmt(dt[2], 2) \o <<"-">> \o Fmt(dt[3], 2)

\* month_start(dt), lines 72-75, for dt NULL (NaT) or the timestamp's
\* <<year, month, day>>.
month_start(dt) ==
    IF dt = NULL THEN <<>>
    ELSE Fmt(dt[1], 4) \o <<"-">> \o Fmt(dt[2], 2) \o <<"-", "0", "1">>

\* ingest_timeseries, lines 334-357: the date string of a row. The cell is,
\* in mode "date", what pd.to_datetime(errors="coerce") makes of it (NULL for
\* NaT); in mode "ym", the pair of what pd.to_numeric(errors="coerce") makes
\* of the year and the month cells (NULL for NaN), whole numbers; in mode
\* "yyyymm", the text of the cell.
RowDate(mode, cell) ==
    CASE mode = "date" -> month_start(cell)
      [] mode = "ym" ->
            IF cell[1] # NULL /\ cell[2] # NULL
            THEN Fmt(cell[1][1], 4) \o <<"-">> \o Fmt(cell[2][1], 2) \o <<"-", "0", "1">>
            ELSE <<>>
      [] mode = "yyyymm" ->
            IF Len(cell) >= 6
            THEN SubSeq(cell, 1, 4) \o <<"-">> \o SubSeq(cell, 5, 6) \o <<"-", "0", "1">>
            ELSE <<>>

\* ingest_timeseries, lines 366-367: the rows handed to COPY, those with an
\* id and a date string of length 10, in file order.
RowsForCopy(mode, file) ==
    LET dated == [i \in DOMAIN file |->
                     [feature_id |-> file[i].id, date |-> RowDate(mode, file[i].date),
                      val |-> file[i].val]]
    IN  SelectSeq(dated, LAMBDA r : r.feature_id # NULL /\ Len(r.date) = 10)

\* The date PostgreSQL reads from a string YYYY-MM-DD of length 10, as
\* <<year, month, day>>, or NULL when it raises (not digits, year 0, month
\* outside 1..12, day outside 1..28 taken as the days every month has).
PgDate(str) ==
    IF /\ \A i \in {1, 2, 3, 4, 6, 7, 9, 10} : IsDigit(str[i])
       /\ str[5] = "-" /\ str[8] = "-"
       /\ DigitsValue(SubSeq(str, 1, 4)) >= 1
       /\ DigitsValue(SubSeq(str, 6, 7)) \in 1..12
       /\ DigitsValue(SubSeq(str, 9, 10)) \in 1..28
    THEN Some(<<DigitsValue(SubSeq(str, 1, 4)), DigitsValue(SubSeq(str, 6, 7)),
                DigitsValue(SubSeq(str, 9, 10))>>)
    ELSE NULL

\* PRIMARY KEY (feature_id, date), create_ts_table line 217: the row's key
\* is among the keys the table holds.
KeyExists(keys, key) == key \in keys

\* COPY of the rows in order into a table that holds the keys held: err and
\* the rows loaded, each with its feature_id, its date and its value. The
\* first row PostgreSQL cannot take fails the statement.
RECURSIVE CopyRows(_, _, _)
CopyRows(rows, held, loaded) ==
    IF rows = <<>> THEN [err |-> "", loaded |-> loaded]
    ELSE LET r == Head(rows)
             d == PgDate(r.date)
         IN  IF d = NULL
             THEN [err |-> "sql: invalid input syntax for type date", loaded |-> <<>>]
             ELSE IF KeyExists(held, <<r.feature_id[1], d[1]>>)
             THEN [err |-> "sql: duplicate key", loaded |-> <<>>]
             ELSE CopyRows(Tail(rows), held \cup {<<r.feature_id[1], d[1]>>},
                           Append(loaded, [feature_id |-> r.feature_id[1],
                                           date |-> d[1], val |-> r.val]))

\* A date as the month the series tables are keyed by.
MonthOf(date) == date[1] * 12 + (date[2] - 1)

\* The rows of a data.csv as they are written: an id cell (NULL when empty),
\* the date cell or cells of the header's mode, and a value.
RawFiles(ids, cells, vals, n) ==
    SeqsUpTo([id : ids, date : cells, val : vals], n)

\* ingest_timeseries as IngestTimeseries, from the rows as they are written
\* (every index column of a row holds the row's value): rows without id or
\* date string are dropped, the others COPYed in one transaction. cells
\* gives, for each date mode, the date cells a file may hold. copied lists
\* the rows the COPY loaded.
IngestTimeseriesRaw(ids, cells, vals, n) ==
    /\ resp = NoResp
    /\ imp.pc = "ingest"
    /\ LET table == FoldedTsName(imp.key)
           copy  == Range(CopyColsOf(imp.index_cols))
           t     == tables[table]
           mode  == detect_date_columns(imp.header).mode
       IN  \E file \in RawFiles(ids, cells[mode], vals, n) :
              LET out  == RowsForCopy(mode, file)
                  held == {<<c[1], <<c[2] \div 12, (c[2] % 12) + 1, 1>>>> : c \in DOMAIN t.rows}
                  done == CopyRows(out, held, <<>>)
                  csv  == [cell \in {<<done.loaded[i].feature_id, MonthOf(done.loaded[i].date)>>
                                       : i \in DOMAIN done.loaded} |->
                             [c \in copy |->
                                (CHOOSE r \in Range(done.loaded) :
                                    <<r.feature_id, MonthOf(r.date)>> = cell).val]]
              IN  IF out # <<>> /\ ~(copy \subseteq t.cols)
                  THEN /\ imp' = ImpIdle("sql: column does not exist")
                       /\ UNCHANGED tables
                  ELSE IF done.err # ""
                  THEN /\ imp' = ImpIdle(done.err)
                       /\ UNCHANGED tables
                  ELSE /\ tables' =
                             [tables EXCEPT ![table].rows =
                                [cell \in DOMAIN csv |->
                                   [c \in t.cols |-> IF c \in copy THEN csv[cell][c]
                                                     ELSE NULL]]
                                @@ t.rows]
                       /\ imp' = [imp EXCEPT !.pc = StepAfter(imp.pc)]
                                 @@ [csv |-> csv, file |-> file, copied |-> done.loaded]
    /\ UNCHANGED <<datasets, dsBounds, features, keyCache, idxCache, cache, rebuilt>>
    /\ ReadersReset

\* The dates of the rows of a series table, of one feature or (fid = NULL) of
\* all, as the (min_date, max_date) pair of finalize_bounds; the value
\* columns are not looked at.
RowBounds(rows, fid) ==
    LET ds == {cell[2] : cell \in {c \in DOMAIN rows : fid = NULL \/ c[1] = fid[1]}}
    IN  IF ds = {} THEN [min_date |-> NULL, max_date |-> NULL]
        ELSE [min_date |-> Some(CHOOSE d \in ds : \A e \in ds : d <= e),
              max_date |-> Some(CHOOSE d \in ds : \A e \in ds : d >= e)]

\* finalize_bounds: UPDATE features ... FROM (SELECT feature_id, MIN(date),
\* MAX(date) FROM ts_<key> GROUP BY feature_id), which touches the features
\* of the dataset that have a series row, and UPDATE datasets with the MIN
\* and MAX over the whole table.
\* Followed by the two ANALYZE statements, which change nothing a reader
\* sees.
FinalizeBounds ==
    /\ resp = NoResp
    /\ imp.pc = "bounds"
    /\ LET rows == tables[FoldedTsName(imp.key)].rows
       IN  /\ features' =
                 [cell \in DOMAIN features |->
                    IF cell[1] = imp.key /\ \E c \in DOMAIN rows : c[1] = cell[2]
                    THEN [geom |-> features[cell].geom,
                          min_date |-> RowBounds(rows, Some(cell[2])).min_date,
                          max_date |-> RowBounds(rows, Some(cell[2])).max_date]
                    ELSE features[cell]]
           /\ dsBounds' = [k \in DOMAIN dsBounds |->
                             IF k = imp.key THEN RowBounds(rows, NULL) ELSE dsBounds[k]]
    /\ imp' = [imp EXCEPT !.pc = StepAfter(imp.pc)]
    /\ UNCHANGED <<datasets, tables, keyCache, idxCache, cache, rebuilt>>
    /\ ReadersReset

----------------------------------------------------------------------------
(* Lookups of the serving process: backend/app/datasets_store.py           *)

\* _validate_dataset_key: the stripped key, or <<>> standing for the
\* ValueError (no accepted key is empty).
validate_dataset_key(value) ==
    LET key == Strip(value)
    IN  IF MatchesKeyRe(key) THEN key ELSE <<>>

\* _canonical_dataset_key, for a key that _validate_dataset_key accepts.
canonical_dataset_key(value) == Lower(validate_dataset_key(value))

\* _ts_table, for a key that _validate_dataset_key accepts.
ts_table(dataset_key) == <<"t", "s", "_">> \o canonical_dataset_key(dataset_key)

\* resolve_dataset_key(value): what a call may return. A cached argument
\* returns its entry (lru_cache); otherwise SELECT ... WHERE
\* lower(dataset_key) = :k LIMIT 1 returns any one matching row, there being
\* no ORDER BY. An exception is not cached.
ResolveOutcomes(value) ==
    IF value \in DOMAIN keyCache THEN {[err |-> "", key |-> keyCache[value]]}
    ELSE IF validate_dataset_key(value) = <<>>
         THEN {[err |-> "Invalid dataset key", key |-> <<>>]}
    ELSE LET canon == Lower(validate_dataset_key(value))
             rows  == {d \in datasets : Lower(d) = canon}
         IN  IF rows = {} THEN {[err |-> "Dataset not found", key |-> <<>>]}
             ELSE {[err |-> "", key |-> d] : d \in rows}

KeyCacheAfter(value, r) ==
    IF r.err = "" THEN (value :> r.key) @@ keyCache ELSE keyCache

\* The columns information_schema.columns lists for a table of schema public.
InformationSchemaColumns(table) ==
    IF table \in DOMAIN tables
    THEN {n_feature_id, n_date} \cup tables[table].cols
    ELSE {}

\* get_available_indices(dataset_key), for an accepted key: the cached list of
\* the argument, else the columns of ts_<key> other than feature_id and date
\* (the list is used as a set by validate_index_name).
get_available_indices(dataset_key) ==
    IF dataset_key \in DOMAIN idxCache THEN idxCache[dataset_key]
    ELSE InformationSchemaColumns(ts_table(canonical_dataset_key(dataset_key)))
         \ {n_feature_id, n_date}

\* The files of the dataset the run is at, as imp.read lists them.
FilesRead ==
    [key |-> imp.key, header |-> imp.header, geojson |-> imp.geojson, csv |-> imp.csv]

\* precompute_dataset_trends, line 427: get_available_indices in the importer
\* process, whose cache is empty.
PrecomputeIndices(dataset_key) ==
    InformationSchemaColumns(ts_table(canonical_dataset_key(dataset_key)))
    \ {n_feature_id, n_date}

\* precompute_dataset_trends, lines 425-433, the last step of
\* import_one_dataset: without index columns it returns and the run goes on
\* to the next dataset; otherwise it calls precompute_trend_stats, the name
\* line 59 imports from app.datasets_store, which defines no such function:
\* the call fails, nothing is stored and the run ends there. With observed,
\* rebuilt remembers the files a --replace run read and the store it left.
PrecomputeDatasetTrends(observed) ==
    /\ resp = NoResp
    /\ imp.pc = "precompute"
    /\ IF PrecomputeIndices(imp.key) = {}
       THEN /\ imp' = [pc |-> StepAfter(imp.pc), err |-> "", replace |-> imp.replace,
                       queue |-> Tail(imp.queue),
                       read |-> Append(imp.read, FilesRead)]
            /\ UNCHANGED rebuilt
       ELSE /\ imp' = ImpIdle("cannot import name precompute_trend_stats")
            /\ rebuilt' = IF observed /\ imp.replace
                          THEN Some([read |-> Append(imp.read, FilesRead),
                                     summary |-> StoreSummary])
                          ELSE rebuilt
    /\ UNCHANGED <<datasets, dsBounds, features, tables, keyCache, idxCache, cache>>
    /\ ReadersReset

\* validate_index_name(dataset_key, index): the error, or the accepted name.
validate_index_name(dataset_key, index) ==
    IF validate_dataset_key(dataset_key) = <<>>
    THEN [err |-> "Invalid dataset key", idx |-> <<>>]
    ELSE LET idx     == Lower(Strip(index))
             allowed == get_available_indices(canonical_dataset_key(dataset_key))
         IN  IF idx \notin allowed THEN [err |-> "Unknown index", idx |-> <<>>]
             ELSE [err |-> "", idx |-> idx]

IdxCacheAfter(dataset_key) ==
    IF validate_dataset_key(dataset_key) = <<>> THEN idxCache
    ELSE LET canon == canonical_dataset_key(dataset_key)
         IN  (canon :> get_available_indices(canon)) @@ idxCache

\* A call of resolve_dataset_key(value).
ResolveDatasetKey(keyInputs) ==
    /\ resp = NoResp
    /\ \E value \in keyInputs :
          \E r \in ResolveOutcomes(value) :
             /\ keyCache' = KeyCacheAfter(value, r)
             /\ resp' = [op |-> "resolve_dataset_key", arg |-> value,
                         err |-> r.err, key |-> r.key]
             /\ answered' = IF r.err = "" THEN answered \cup {<<value, r.key>>}
                            ELSE answered
    /\ UNCHANGED <<datasets, dsBounds, features, tables, idxCache,
                 imp, cache, engineRuns, rebuilt>>

\* A call of _ts_table(dataset_key).
TsTable(keyInputs) ==
    /\ resp = NoResp
    /\ \E value \in keyInputs :
          resp' = IF validate_dataset_key(value) = <<>>
                  THEN [op |-> "_ts_table", arg |-> value,
                        err |-> "Invalid dataset key", out |-> <<>>]
                  ELSE [op |-> "_ts_table", arg |-> value, err |-> "",
                        out |-> ts_table(value)]
    /\ UNCHANGED <<datasets, dsBounds, features, tables, keyCache, idxCache,
                 imp, answered, cache, engineRuns, rebuilt>>

\* A call of _validate_dataset_key(value), and of _canonical_dataset_key on
\* the same value.
ValidateDatasetKey(raws) ==
    /\ resp = NoResp
    /\ \E value \in raws :
          resp' = IF validate_dataset_key(value) = <<>>
                  THEN [op |-> "_validate_dataset_key", arg |-> value,
                        err |-> "Invalid dataset key", out |-> <<>>, canonical |-> <<>>]
                  ELSE [op |-> "_validate_dataset_key", arg |-> value, err |-> "",
                        out |-> validate_dataset_key(value),
                        canonical |-> canonical_dataset_key(value)]
    /\ UNCHANGED <<datasets, dsBounds, features, tables, keyCache, idxCache,
                 imp, answered, cache, engineRuns, rebuilt>>

\* A call of the importer's safe_dataset_key(value).
SafeDatasetKey(raws) ==
    /\ resp = NoResp
    /\ \E value \in raws :
          resp' = IF safe_dataset_key(value) = <<>>
                  THEN [op |-> "safe_dataset_key", arg |-> value,
                        err |-> "Unsafe dataset key", out |-> <<>>]
                  ELSE [op |-> "safe_dataset_key", arg |-> value, err |-> "",
                        out |-> safe_dataset_key(value)]
    /\ UNCHANGED <<datasets, dsBounds, features, tables, keyCache, idxCache,
                 imp, answered, cache, engineRuns, rebuilt>>

\* A call of validate_index_name(dataset_key, index).
ValidateIndexName(keyInputs, indexInputs) ==
    /\ resp = NoResp
    /\ \E dataset_key \in keyInputs, index \in indexInputs :
          LET r == validate_index_name(dataset_key, index)
          IN  /\ resp' = [op |-> "validate_index_name", dataset_key |-> dataset_key,
                          index |-> index, err |-> r.err, idx |-> r.idx]
              /\ idxCache' = IdxCacheAfter(dataset_key)
    /\ UNCHANGED <<datasets, dsBounds, features, tables, keyCache,
                 imp, answered, cache, engineRuns, rebuilt>>

\* The serving process is started again: both lru_caches are empty.
ServerRestart ==
    /\ resp = NoResp
    /\ keyCache # [x \in {} |-> x] \/ idxCache # [x \in {} |-> x]
    /\ keyCache' = [x \in {} |-> x]
    /\ idxCache' = [x \in {} |-> x]
    /\ UNCHANGED <<datasets, dsBounds, features, tables,
                 imp, resp, answered, cache, engineRuns, rebuilt>>

\* The response in flight is delivered.
Respond ==
    /\ resp # NoResp
    /\ resp' = NoResp
    /\ UNCHANGED <<datasets, dsBounds, features, tables, keyCache, idxCache,
                 imp, answered, cache, engineRuns, rebuilt>>

----------------------------------------------------------------------------
(* Reads of the series tables: backend/app/datasets_store.py               *)

\* The first two steps of every read: resolve_dataset_key(level), then
\* validate_index_name(level, index); each outcome with the caches it leaves.
PreludeOutcomes(level, index) ==
    {IF r.err # ""
     THEN [err |-> r.err, key |-> <<>>, idx |-> <<>>,
           keyCache |-> keyCache, idxCache |-> idxCache]
     ELSE [err |-> validate_index_name(level, index).err, key |-> r.key,
           idx |-> validate_index_name(level, index).idx,
           keyCache |-> KeyCacheAfter(level, r),
           idxCache |-> IdxCacheAfter(level)]
     : r \in ResolveOutcomes(level)}

\* Whether a statement that reads column idx of the table can run.
SqlRuns(table, idx) == table \in DOMAIN tables /\ idx \in tables[table].cols

\* The error a read ends with: the ValueError of the prelude, else the
\* database error of a statement that names a missing table or column.
ReadError(level, pre) ==
    IF pre.err # "" THEN pre.err
    ELSE IF ~SqlRuns(ts_table(level), pre.idx) THEN "sql"
    ELSE ""

Min(S) == CHOOSE x \in S : \A y \in S : x <= y
Max(S) == CHOOSE x \in S : \A y \in S : y <= x

\* The months of the feature's rows whose idx value is not NULL.
MonthsWithValue(rows, fid, idx) ==
    {cell[2] : cell \in {c \in DOMAIN rows : c[1] = fid /\ rows[c][idx] # NULL}}

\* The slip: every row of the feature counts, NULL values included.
index_min_max_date_all_rows(rows, fid, idx) ==
    LET ds == {cell[2] : cell \in {c \in DOMAIN rows : c[1] = fid}}
    IN  IF ds = {} THEN [min_d |-> NULL, max_d |-> NULL]
        ELSE [min_d |-> Some(Min(ds)), max_d |-> Some(Max(ds))]

\* _index_min_max_date: MIN(date), MAX(date) over the feature's rows WHERE idx
\* IS NOT NULL.
index_min_max_date(rows, fid, idx) ==
    LET ds == MonthsWithValue(rows, fid, idx)
    IN  IF ds = {} THEN [min_d |-> NULL, max_d |-> NULL]
        ELSE [min_d |-> Some(Min(ds)), max_d |-> Some(Max(ds))]

\* strftime("%Y-%m") and isoformat() of a month-start date.
YearMonth(d) == <<d \div 12, (d % 12) + 1>>
IsoDate(d) == <<d \div 12, (d % 12) + 1, 1>>

\* The slip: the series stops one month short of max_d.
MonthSeriesShort(min_d, max_d) == [i \in 1..(max_d - min_d) |-> min_d + i - 1]

\* generate_series(min_d, max_d, interval '1 month')
MonthSeries(min_d, max_d) == [i \in 1..(max_d - min_d + 1) |-> min_d + i - 1]

\* fetch_timeseries_full, lines 431-470 (the feature's display name left out).
fetch_timeseries_full(rows, fid, idx) ==
    LET b == index_min_max_date(rows, fid, idx)
    IN  IF b.min_d = NULL \/ b.max_d = NULL
        THEN [min_month |-> NULL, max_month |-> NULL, data |-> <<>>]
        ELSE LET months == MonthSeries(b.min_d[1], b.max_d[1])
             IN  [min_month |-> Some(YearMonth(b.min_d[1])),
                  max_month |-> Some(YearMonth(b.max_d[1])),
                  data |-> [i \in DOMAIN months |->
                              [date  |-> IsoDate(months[i]),
                               value |-> IF <<fid, months[i]>> \in DOMAIN rows
                                         THEN rows[<<fid, months[i]>>][idx]
                                         ELSE NULL]]]

\* (note or "") + ("" if note is None else ";") + tag
ComposeNote(note, tag) ==
    Some((IF note = NULL THEN "" ELSE note[1]) \o (IF note = NULL THEN "" ELSE ";") \o tag)

\* The slip: a month equal to a bound is clamped too.
ClampRequestedInclusive(requested, min_d, max_d) ==
    IF requested <= min_d THEN [eff |-> min_d, note |-> Some("clamped-to-start")]
    ELSE IF requested >= max_d THEN [eff |-> max_d, note |-> Some("clamped-to-end")]
    ELSE [eff |-> requested, note |-> NULL]

\* find_effective_month_for_value, lines 504-511.
ClampRequested(requested, min_d, max_d) ==
    IF requested < min_d THEN [eff |-> min_d, note |-> Some("clamped-to-start")]
    ELSE IF requested > max_d THEN [eff |-> max_d, note |-> Some("clamped-to-end")]
    ELSE [eff |-> requested, note |-> NULL]

\* The slip: the latest row at or before d, whatever its value.
PrevAnyRow(rows, fid, idx, d) ==
    {cell[2] : cell \in {c \in DOMAIN rows : c[1] = fid /\ c[2] <= d}}

\* The slip: ORDER BY date ASC, so the earliest month with a value is taken.
PrevEarliest(rows, fid, idx, d) ==
    LET ms == {m \in MonthsWithValue(rows, fid, idx) : m <= d}
    IN  IF ms = {} THEN {} ELSE {Min(ms)}

\* The slip: no row at all is reported with the tag of the last branch.
NoCoverageNoteNoValue == "no-value"

\* Line 502: the note returned when the feature has no value of the index.
NoCoverageNote == "no-data"

\* Lines 521-532: the months date <= d of the feature with a value.
PrevWithValue(rows, fid, idx, d) == {m \in MonthsWithValue(rows, fid, idx) : m <= d}

\* Lines 536-547: the months date > d of the feature with a value.
NextWithValue(rows, fid, idx, d) == {m \in MonthsWithValue(rows, fid, idx) : m > d}

\* find_effective_month_for_value, lines 500-551: (effective date, value, note).
find_effective_month_for_value(rows, fid, idx, requested) ==
    LET b == index_min_max_date(rows, fid, idx)
    IN  IF b.min_d = NULL \/ b.max_d = NULL
        THEN [date |-> requested, value |-> NULL, note |-> Some(NoCoverageNote)]
        ELSE LET c    == ClampRequested(requested, b.min_d[1], b.max_d[1])
                 eff  == c.eff
                 prev == PrevWithValue(rows, fid, idx, eff)
                 nxt  == NextWithValue(rows, fid, idx, eff)
             IN  IF <<fid, eff>> \in DOMAIN rows /\ rows[<<fid, eff>>][idx] # NULL
                 THEN [date |-> eff, value |-> rows[<<fid, eff>>][idx], note |-> c.note]
                 ELSE IF prev # {}
                 THEN [date |-> Max(prev), value |-> rows[<<fid, Max(prev)>>][idx],
                       note |-> ComposeNote(c.note, "nearest-previous")]
                 ELSE IF nxt # {}
                 THEN [date |-> Min(nxt), value |-> rows[<<fid, Min(nxt)>>][idx],
                       note |-> ComposeNote(c.note, "nearest-next")]
                 ELSE [date |-> eff, value |-> NULL,
                       note |-> ComposeNote(c.note, "no-value")]

\* The values of the months of S, in date order.
RECURSIVE ValuesInOrder(_, _, _, _)
ValuesInOrder(rows, fid, idx, S) ==
    IF S = {} THEN <<>>
    ELSE <<rows[<<fid, Min(S)>>][idx][1]>> \o ValuesInOrder(rows, fid, idx, S \ {Min(S)})

\* fetch_values_up_to, lines 571-591: end_date is NULL for the full history.
fetch_values_up_to(rows, fid, idx, end_date) ==
    ValuesInOrder(rows, fid, idx,
                  {m \in MonthsWithValue(rows, fid, idx) :
                      end_date = NULL \/ m <= end_date[1]})

\* The slip: the D0 clause is open at -0.8 (val > -0.8).
InBucketOpen(bucket, v) ==
    CASE bucket = "Normal/Wet" -> v >= 0
      [] bucket = "D0" -> v < 0 /\ v > -800
      [] bucket = "D1" -> v < -800 /\ v >= -1300
      [] bucket = "D2" -> v < -1300 /\ v >= -1600
      [] bucket = "D3" -> v < -1600 /\ v >= -2000
      [] bucket = "D4" -> v < -2000

\* fetch_overview_counts, lines 370-375: the FILTER clause of each bucket.
InBucket(bucket, v) ==
    CASE bucket = "Normal/Wet" -> v >= 0
      [] bucket = "D0" -> v < 0 /\ v >= -800
      [] bucket = "D1" -> v < -800 /\ v >= -1300
      [] bucket = "D2" -> v < -1300 /\ v >= -1600
      [] bucket = "D3" -> v < -1600 /\ v >= -2000
      [] bucket = "D4" -> v < -2000

\* fetch_overview_counts, lines 360-394, for the month target_date: every
\* count is taken on its own over the rows of the month.
fetch_overview_counts(rows, idx, target_date) ==
    LET v      == {c \in DOMAIN rows : c[2] = target_date}
        with   == {c \in v : rows[c][idx] # NULL}
        n(bucket) == Cardinality({c \in with : InBucket(bucket, rows[c][idx][1])})
    IN  [with_value |-> Cardinality(with), missing |-> Cardinality(v \ with),
         normal_wet |-> n("Normal/Wet"), D0 |-> n("D0"), D1 |-> n("D1"),
         D2 |-> n("D2"), D3 |-> n("D3"), D4 |-> n("D4")]

\* _parse_yyyymm of "YYYY-MM", given as <<year, month>>: the month-start date,
\* or NULL for the ValueError.
parse_yyyymm(value) ==
    IF Len(value) # 2 THEN NULL
    ELSE IF value[2] < 1 \/ value[2] > 12 THEN NULL
    ELSE Some(value[1] * 12 + (value[2] - 1))

\* _bbox_from_str of a bbox parameter whose comma-separated parts are
\* numbers, given as the sequence of the parts (<<>> for None or ""): the
\* envelope <<minx, miny, maxx, maxy>>, or <<>> for None.
bbox_from_str(bbox) ==
    IF bbox = <<>> THEN <<>>
    ELSE IF Len(bbox) # 4 THEN <<>>
    ELSE <<Min({bbox[1], bbox[3]}), Min({bbox[2], bbox[4]}),
           Max({bbox[1], bbox[3]}), Max({bbox[2], bbox[4]})>>

\* f.geom && ST_MakeEnvelope(minx, miny, maxx, maxy) for a point geometry
\* <<x, y>>: the bounding boxes overlap.
GeomOverlaps(geom, envelope) ==
    /\ envelope[1] <= geom[1] /\ geom[1] <= envelope[3]
    /\ envelope[2] <= geom[2] /\ geom[2] <= envelope[4]

\* The order of the feature ids under ORDER BY f.feature_id.
FeatureIdCollation == <<"f1", "f2", "f3">>

FeatureIdLess(a, b) ==
    \E i, j \in 1..Len(FeatureIdCollation) :
       i < j /\ FeatureIdCollation[i] = a /\ FeatureIdCollation[j] = b

RECURSIVE OrderByFeatureId(_)
OrderByFeatureId(S) ==
    IF S = {} THEN <<>>
    ELSE LET least == CHOOSE x \in S : \A y \in S \ {x} : FeatureIdLess(x, y)
         IN  <<least>> \o OrderByFeatureId(S \ {least})

\* The slip: the count is queried for every page.
CountSqlAlways(offset) == TRUE

\* fetch_features_geojson, line 307: whether the COUNT(*) query is issued.
CountSqlIssued(offset) == offset = 0

\* The slip: an inner join, which drops the features without a series row of
\* the month.
InnerJoin(fids, rows, target_date) ==
    {fid \in fids : <<fid, target_date>> \in DOMAIN rows}

\* fetch_features_geojson, lines 295-298: FROM features f LEFT JOIN ts ON
\* feature_id and date; the features that yield a result row (the series
\* table has at most one row per feature and date).
LeftJoin(fids, rows, target_date) == fids

\* fetch_features_geojson, lines 273-345, after the key and the index were
\* accepted: key is the stored dataset key, rows the rows of the series
\* table, limit and offset are natural numbers.
fetch_features_geojson(key, rows, idx, target_date, envelope, limit, offset) ==
    LET where   == {c \in DOMAIN features :
                       /\ c[1] = key
                       /\ envelope = <<>> \/ GeomOverlaps(features[c].geom, envelope)}
        joined  == LeftJoin({c[2] : c \in where}, rows, target_date)
        ordered == OrderByFeatureId(joined)
        page    == SubSeq(ordered, offset + 1, Min({Len(ordered), offset + limit}))
        total   == IF CountSqlIssued(offset) THEN Some(Cardinality(where)) ELSE NULL
    IN  [features |->
            [i \in 1..Len(page) |->
                [id |-> page[i],
                 geometry |-> features[<<key, page[i]>>].geom,
                 value |-> IF <<page[i], target_date>> \in DOMAIN rows
                           THEN rows[<<page[i], target_date>>][idx] ELSE NULL]],
         meta |-> [total |-> total, returned |-> Len(page), limit |-> limit,
                   offset |-> offset,
                   truncated |-> total # NULL /\ total[1] > offset + Len(page)]]

\* utils.drought_class
drought_class(value) ==
    IF value >= 0 THEN "Normal/Wet"
    ELSE IF value >= -800 THEN "D0"
    ELSE IF value >= -1300 THEN "D1"
    ELSE IF value >= -1600 THEN "D2"
    ELSE IF value >= -2000 THEN "D3"
    ELSE "D4"

----------------------------------------------------------------------------
(* Trend statistic engine: backend/app/utils.py                            *)

\* DEFAULT_TREND_ALPHA = 0.05, in thousandths.
DEFAULT_TREND_ALPHA == 50

TrendNone ==
    [trend_category |-> "none", trend_label_en |-> "No Significant Trend",
     trend_symbol |-> "-"]

TrendInc ==
    [trend_category |-> "inc", trend_label_en |-> "Increasing Trend (Wetter)",
     trend_symbol |-> "up"]

TrendDec ==
    [trend_category |-> "dec", trend_label_en |-> "Decreasing Trend (Drier)",
     trend_symbol |-> "down"]

\* The boundary slip: p >= alpha instead of p > alpha.
classify_trend_ge(sen_slope, p_value, alpha) ==
    LET slope == IF sen_slope = NULL THEN 0 ELSE sen_slope[1]
        p     == IF p_value = NULL THEN 1000 ELSE p_value[1]
    IN  IF p >= alpha THEN TrendNone
        ELSE IF slope > 0 THEN TrendInc
        ELSE IF slope < 0 THEN TrendDec
        ELSE TrendNone

\* classify_trend: None slope is 0.0, None p-value is 1.0; the Persian label
\* (trend_label_fa) is carried beside trend_label_en and is left out here.
classify_trend(sen_slope, p_value, alpha) ==
    LET slope == IF sen_slope = NULL THEN 0 ELSE sen_slope[1]
        p     == IF p_value = NULL THEN 1000 ELSE p_value[1]
    IN  IF p > alpha THEN TrendNone
        ELSE IF slope > 0 THEN TrendInc
        ELSE IF slope < 0 THEN TrendDec
        ELSE TrendNone

\* Longest value sequence handed to the trend engine.
MaxVals == 2

TrendVals == {-1200, 500}

SlopeInputs == {Some(-5), Some(0), Some(5), NULL}
PInputs == {Some(0), Some(10), Some(50), Some(51), Some(200), Some(1000), NULL}

\* mk.original_test(values) of the pymannkendall package, which is outside the
\* repository: the (Tau, p, slope, trend) it may report for a series of two or
\* more values.
MkOriginalTest ==
    [Tau : {-1000, 0, 1000}, p : {10, 50, 51}, slope : {-5, 0, 5},
     trend : {"increasing", "decreasing", "no trend"}]

\* mann_kendall_and_sen(values), given the library's result for values.
mann_kendall_and_sen(values, result) ==
    IF Len(values) < 2
    THEN [tau |-> 0, p_value |-> 1000, sen_slope |-> 0, trend |-> "no trend"]
    ELSE LET out == [tau |-> result.Tau, p_value |-> result.p,
                     sen_slope |-> result.slope, trend |-> result.trend]
         IN  classify_trend(Some(out.sen_slope), Some(out.p_value),
                            DEFAULT_TREND_ALPHA) @@ out

\* A call of classify_trend(slope, p) with the default alpha.
ClassifyTrend ==
    /\ resp = NoResp
    /\ \E s \in SlopeInputs, p \in PInputs :
          resp' = [op |-> "classify_trend", sen_slope |-> s, p_value |-> p,
                   out |-> classify_trend(s, p, DEFAULT_TREND_ALPHA)]
    /\ UNCHANGED <<datasets, dsBounds, features, tables, keyCache, idxCache,
                 imp, answered, cache, engineRuns, rebuilt>>

\* A call of mann_kendall_and_sen(values).
MannKendallAndSen ==
    /\ resp = NoResp
    /\ \E values \in SeqsUpTo(TrendVals, MaxVals) :
          \E result \in MkOriginalTest :
             resp' = [op |-> "mann_kendall_and_sen", values |-> values,
                      out |-> mann_kendall_and_sen(values, result)]
    /\ UNCHANGED <<datasets, dsBounds, features, tables, keyCache, idxCache,
                 imp, answered, cache, engineRuns, rebuilt>>

----------------------------------------------------------------------------
(* Read requests                                                           *)

\* A call of fetch_timeseries_full(dataset_key, feature_id, index).
FetchTimeseriesFull(levels, fids, indexes) ==
    /\ resp = NoResp
    /\ \E level \in levels, fid \in fids, index \in indexes :
          \E pre \in PreludeOutcomes(level, index) :
             /\ keyCache' = pre.keyCache
             /\ idxCache' = pre.idxCache
             /\ resp' = [op |-> "fetch_timeseries_full", dataset_key |-> level,
                         feature_id |-> fid, index |-> index,
                         err |-> ReadError(level, pre),
                         out |-> IF ReadError(level, pre) # "" THEN <<>>
                                 ELSE fetch_timeseries_full(tables[ts_table(level)].rows,
                                                            fid, pre.idx)]
    /\ UNCHANGED <<datasets, dsBounds, features, tables,
                 imp, answered, cache, engineRuns, rebuilt>>

\* A call of find_effective_month_for_value(dataset_key, feature_id, index,
\* requested).
FindEffectiveMonthForValue(levels, fids, indexes, requests) ==
    /\ resp = NoResp
    /\ \E level \in levels, fid \in fids, index \in indexes, requested \in requests :
          \E pre \in PreludeOutcomes(level, index) :
             /\ keyCache' = pre.keyCache
             /\ idxCache' = pre.idxCache
             /\ resp' = [op |-> "find_effective_month_for_value", dataset_key |-> level,
                         feature_id |-> fid, index |-> index, requested |-> requested,
                         err |-> ReadError(level, pre),
                         out |-> IF ReadError(level, pre) # "" THEN <<>>
                                 ELSE find_effective_month_for_value(
                                          tables[ts_table(level)].rows, fid, pre.idx,
                                          requested)]
    /\ UNCHANGED <<datasets, dsBounds, features, tables,
                 imp, answered, cache, engineRuns, rebuilt>>

\* str(index).lower().startswith(("spi", "spei"))
IsSpiIndex(index) ==
    LET l == Lower(index)
    IN  \/ Len(l) >= 3 /\ SubSeq(l, 1, 3) = <<"s", "p", "i">>
        \/ Len(l) >= 4 /\ SubSeq(l, 1, 4) = <<"s", "p", "e", "i">>

RECURSIVE SumSeq(_)
SumSeq(s) == IF s = <<>> THEN 0 ELSE Head(s) + SumSeq(Tail(s))

\* The slip: the trend engine is handed the values up to the effective month.
KpiTrendInputWindow(rows, fid, idx, eff_date) ==
    fetch_values_up_to(rows, fid, idx, eff_date)

\* get_kpi._builder, line 250: full_values, the input of the trend engine.
KpiTrendInput(rows, fid, idx, eff_date) ==
    fetch_values_up_to(rows, fid, idx, NULL)

\* get_kpi._builder, lines 229-265 (the display name left out), for the date
\* parameter date (<<>> when absent, else <<year, month>>) and the library's
\* result for the full history; the mean is the pair <<sum, count>>.
KpiBuilder(rows, fid, index, idx, date, result) ==
    LET requested == IF date = <<>> THEN NULL ELSE parse_yyyymm(date)
        found     == find_effective_month_for_value(rows, fid, idx, requested[1])
        eff_date  == IF requested = NULL THEN NULL ELSE Some(found.date)
        note      == IF requested = NULL THEN NULL ELSE found.note
        values    == fetch_values_up_to(rows, fid, idx, eff_date)
        full      == KpiTrendInput(rows, fid, idx, eff_date)
    IN  IF values = <<>> THEN [error |-> "No series found"]
        ELSE [requested_month |-> IF requested = NULL THEN NULL
                                  ELSE Some(YearMonth(requested[1])),
              effective_month |-> IF eff_date = NULL THEN NULL
                                  ELSE Some(YearMonth(eff_date[1])),
              note |-> note,
              min |-> Min(Range(values)),
              max |-> Max(Range(values)),
              mean |-> <<SumSeq(values), Len(values)>>,
              latest |-> values[Len(values)],
              severity |-> IF IsSpiIndex(index) THEN drought_class(values[Len(values)])
                           ELSE "N/A",
              trend |-> mann_kendall_and_sen(full, result)]

\* The values get_kpi._builder hands to mann_kendall_and_sen for the date
\* parameter date, NULL when it returns before line 251.
KpiEngineInput(rows, fid, idx, date) ==
    LET requested == IF date = <<>> THEN NULL ELSE parse_yyyymm(date)
        found     == find_effective_month_for_value(rows, fid, idx, requested[1])
        eff_date  == IF requested = NULL THEN NULL ELSE Some(found.date)
    IN  IF fetch_values_up_to(rows, fid, idx, eff_date) = <<>> THEN NULL
        ELSE Some(KpiTrendInput(rows, fid, idx, eff_date))

\* fetch_trend_stats_all, lines 608-616: per feature with a value, the values
\* of the index that are not NULL, in date order.
TrendInputsAll(rows, idx) ==
    [fid \in {c[1] : c \in {d \in DOMAIN rows : rows[d][idx] # NULL}} |->
        fetch_values_up_to(rows, fid, idx, NULL)]

\* fetch_trend_stats_all, lines 618-627, given the library's result for each
\* feature: feature_id -> trend dict.
fetch_trend_stats_all(rows, idx, result) ==
    [fid \in DOMAIN TrendInputsAll(rows, idx) |->
        mann_kendall_and_sen(TrendInputsAll(rows, idx)[fid], result[fid])]

\* A call of fetch_trend_stats_all(dataset_key, index); engine_input is what
\* mann_kendall_and_sen was called with for each feature.
FetchTrendStatsAll(levels, indexes, results) ==
    /\ resp = NoResp
    /\ \E level \in levels, index \in indexes :
          \E pre \in PreludeOutcomes(level, index) :
             /\ keyCache' = pre.keyCache
             /\ idxCache' = pre.idxCache
             /\ IF ReadError(level, pre) # ""
                THEN resp' = [op |-> "fetch_trend_stats_all", dataset_key |-> level,
                              index |-> index, err |-> ReadError(level, pre),
                              engine_input |-> <<>>, out |-> <<>>]
                ELSE LET rows == tables[ts_table(level)].rows
                     IN  \E result \in [DOMAIN TrendInputsAll(rows, pre.idx) -> results] :
                            resp' = [op |-> "fetch_trend_stats_all",
                                     dataset_key |-> level, index |-> index, err |-> "",
                                     engine_input |-> TrendInputsAll(rows, pre.idx),
                                     out |-> fetch_trend_stats_all(rows, pre.idx, result)]
    /\ UNCHANGED <<datasets, dsBounds, features, tables,
                 imp, answered, cache, engineRuns, rebuilt>>

\* A request GET /kpi whose answer is not in the result cache; results are
\* the library's possible results for the feature's full history.
GetKpi(levels, fids, indexes, dates, results) ==
    /\ resp = NoResp
    /\ \E level \in levels, fid \in fids, index \in indexes, date \in dates :
          \E pre \in PreludeOutcomes(level, index) :
             /\ keyCache' = pre.keyCache
             /\ idxCache' = pre.idxCache
             /\ \E result \in results :
                   resp' = [op |-> "get_kpi", dataset_key |-> level, feature_id |-> fid,
                            index |-> index, date |-> date,
                            err |-> ReadError(level, pre),
                            engine_input |->
                                IF ReadError(level, pre) # "" THEN <<>>
                                ELSE KpiEngineInput(tables[ts_table(level)].rows, fid,
                                                    pre.idx, date),
                            out |-> IF ReadError(level, pre) # "" THEN <<>>
                                    ELSE KpiBuilder(tables[ts_table(level)].rows, fid,
                                                    index, pre.idx, date, result)]
    /\ UNCHANGED <<datasets, dsBounds, features, tables,
                 imp, answered, cache, engineRuns, rebuilt>>

\* The keys of the trend dict get_mapdata copies into a feature, lines
\* 150-158; a key the dict lacks is read as None and left out here.
TrendPayloadKeys ==
    {"tau", "p_value", "sen_slope", "trend_category", "trend_label_en",
     "trend_label_fa", "trend_symbol"}

\* get_mapdata._builder, lines 141-159: the collection fc with severity and
\* trend attached to every feature.
MapdataAttach(fc, index, trends) ==
    [features |->
        [i \in 1..Len(fc.features) |->
            LET f == fc.features[i]
            IN  [id |-> f.id, geometry |-> f.geometry, value |-> f.value,
                 has_value |-> f.value # NULL,
                 severity |-> IF f.value # NULL /\ IsSpiIndex(index)
                              THEN drought_class(f.value[1])
                              ELSE IF f.value = NULL THEN "No Data" ELSE "N/A",
                 trend |-> IF f.id \in DOMAIN trends
                           THEN Some([k \in TrendPayloadKeys \cap DOMAIN trends[f.id] |->
                                         trends[f.id][k]])
                           ELSE NULL]],
     meta |-> fc.meta]

\* get_kpi, line 227: base_key (date <<>> stands for 'auto').
KpiCacheKey(level, index, region_id, date) == <<"kpi", level, index, region_id, date>>

\* A request GET /kpi, lines 225-275: get_or_set_cache(base_key, _builder,
\* 600). A cached answer is returned as it is; otherwise _builder runs, and
\* its answer is cached unless it raised. engineRuns records the call of
\* mann_kendall_and_sen.
KpiEndpoint(levels, fids, indexes, dates, results) ==
    /\ resp = NoResp
    /\ \E level \in levels, fid \in fids, index \in indexes, date \in dates :
          LET key == KpiCacheKey(level, index, fid, date)
              req == [op |-> "GET /kpi", dataset_key |-> level, feature_id |-> fid,
                      index |-> index, date |-> date]
          IN  IF key \in DOMAIN cache
              THEN /\ resp' = req @@ [err |-> "", hit |-> TRUE, out |-> cache[key]]
                   /\ UNCHANGED <<keyCache, idxCache, cache, engineRuns>>
              ELSE \E pre \in PreludeOutcomes(level, index), result \in results :
                      /\ keyCache' = pre.keyCache
                      /\ idxCache' = pre.idxCache
                      /\ IF ReadError(level, pre) # ""
                         THEN /\ resp' = req @@ [err |-> ReadError(level, pre),
                                                 hit |-> FALSE, out |-> <<>>]
                              /\ UNCHANGED <<cache, engineRuns>>
                         ELSE LET rows == tables[ts_table(level)].rows
                                  out  == KpiBuilder(rows, fid, index, pre.idx, date, result)
                              IN  /\ resp' = req @@ [err |-> "", hit |-> FALSE, out |-> out]
                                  /\ cache' = (key :> out) @@ cache
                                  /\ engineRuns' =
                                        IF KpiEngineInput(rows, fid, pre.idx, date) = NULL
                                        THEN engineRuns
                                        ELSE engineRuns \cup
                                                {[endpoint |-> "kpi", dataset_key |-> level,
                                                  index |-> index, feature_id |-> fid,
                                                  date |-> date]}
    /\ UNCHANGED <<datasets, dsBounds, features, tables, imp, answered, rebuilt>>

\* A request GET /mapdata, lines 107-169, for a bbox of whole numbers (which
\* rounding to three decimals leaves as it is): get_or_set_cache(key,
\* _builder, 300), and inside _builder get_or_set_cache(trend_key, ..., 24 *
\* 3600) around fetch_trend_stats_all. engineRuns records the calls of
\* mann_kendall_and_sen, one per feature with a value.
MapdataEndpoint(levels, indexes, dates, bboxes, limits, offsets, results) ==
    /\ resp = NoResp
    /\ \E level \in levels, index \in indexes, date \in dates, bbox \in bboxes,
          limit \in limits, offset \in offsets :
          LET key       == <<"map", level, index, date, bbox, limit, offset>>
              trend_key == <<"trend_all", level, index>>
              req == [op |-> "GET /mapdata", dataset_key |-> level, index |-> index,
                      date |-> date, bbox |-> bbox, limit |-> limit, offset |-> offset]
          IN  IF key \in DOMAIN cache
              THEN /\ resp' = req @@ [err |-> "", hit |-> TRUE, out |-> cache[key]]
                   /\ UNCHANGED <<keyCache, idxCache, cache, engineRuns>>
              ELSE \E pre \in PreludeOutcomes(level, index) :
                      LET err == IF pre.err # "" THEN pre.err
                                 ELSE IF parse_yyyymm(date) = NULL
                                      THEN "date must be YYYY-MM"
                                 ELSE ReadError(level, pre)
                      IN  /\ keyCache' = pre.keyCache
                          /\ idxCache' = pre.idxCache
                          /\ IF err # ""
                             THEN /\ resp' = req @@ [err |-> err, hit |-> FALSE,
                                                     out |-> <<>>]
                                  /\ UNCHANGED <<cache, engineRuns>>
                             ELSE LET rows == tables[ts_table(level)].rows
                                      fc   == fetch_features_geojson(
                                                 pre.key, rows, pre.idx,
                                                 parse_yyyymm(date)[1],
                                                 bbox_from_str(bbox), limit, offset)
                                  IN  IF trend_key \in DOMAIN cache
                                      THEN LET out == MapdataAttach(fc, index,
                                                                    cache[trend_key])
                                           IN  /\ resp' = req @@ [err |-> "", hit |-> FALSE,
                                                                  out |-> out]
                                               /\ cache' = (key :> out) @@ cache
                                               /\ UNCHANGED engineRuns
                                      ELSE \E result \in [DOMAIN TrendInputsAll(rows, pre.idx)
                                                            -> results] :
                                              LET trends == fetch_trend_stats_all(
                                                               rows, pre.idx, result)
                                                  out == MapdataAttach(fc, index, trends)
                                              IN  /\ resp' = req @@ [err |-> "",
                                                                     hit |-> FALSE,
                                                                     out |-> out]
                                                  /\ cache' = (key :> out)
                                                              @@ (trend_key :> trends)
                                                              @@ cache
                                                  /\ engineRuns' = engineRuns \cup
                                                        {[endpoint |-> "mapdata",
                                                          dataset_key |-> level,
                                                          index |-> index,
                                                          feature_id |-> fid,
                                                          date |-> date]
                                                         : fid \in DOMAIN trends}
    /\ UNCHANGED <<datasets, dsBounds, features, tables, imp, answered, rebuilt>>

\* InMemoryTTLCache.get, lines 20-23 (or the Redis expiry): an entry whose
\* time to live has passed is gone.
CacheExpire ==
    /\ resp = NoResp
    /\ \E key \in DOMAIN cache :
          cache' = [k \in DOMAIN cache \ {key} |-> cache[k]]
    /\ UNCHANGED <<datasets, dsBounds, features, tables, keyCache, idxCache,
                   imp, answered, engineRuns, rebuilt, resp>>

\* A call of fetch_overview_counts(dataset_key, index, yyyymm).
FetchOverviewCounts(levels, indexes, months) ==
    /\ resp = NoResp
    /\ \E level \in levels, index \in indexes, yyyymm \in months :
          \E pre \in PreludeOutcomes(level, index) :
             /\ keyCache' = pre.keyCache
             /\ idxCache' = pre.idxCache
             /\ resp' =
                  LET err == IF pre.err # "" THEN pre.err
                             ELSE IF parse_yyyymm(yyyymm) = NULL THEN "date must be YYYY-MM"
                             ELSE ReadError(level, pre)
                  IN  [op |-> "fetch_overview_counts", dataset_key |-> level,
                       index |-> index, date |-> yyyymm, err |-> err,
                       out |-> IF err # "" THEN <<>>
                               ELSE fetch_overview_counts(tables[ts_table(level)].rows,
                                                          pre.idx, parse_yyyymm(yyyymm)[1])]
    /\ UNCHANGED <<datasets, dsBounds, features, tables,
                 imp, answered, cache, engineRuns, rebuilt>>

\* A call of fetch_features_geojson(dataset_key, index, yyyymm, bbox, limit,
\* offset).
FetchFeaturesGeojson(levels, indexes, months, bboxes, limits, offsets) ==
    /\ resp = NoResp
    /\ \E level \in levels, index \in indexes, yyyymm \in months, bbox \in bboxes,
          limit \in limits, offset \in offsets :
          \E pre \in PreludeOutcomes(level, index) :
             /\ keyCache' = pre.keyCache
             /\ idxCache' = pre.idxCache
             /\ resp' =
                  LET err == IF pre.err # "" THEN pre.err
                             ELSE IF parse_yyyymm(yyyymm) = NULL THEN "date must be YYYY-MM"
                             ELSE ReadError(level, pre)
                  IN  [op |-> "fetch_features_geojson", dataset_key |-> level,
                       key |-> pre.key, index |-> index, date |-> yyyymm,
                       bbox |-> bbox, limit |-> limit, offset |-> offset, err |-> err,
                       out |-> IF err # "" THEN <<>>
                               ELSE fetch_features_geojson(
                                       pre.key, tables[ts_table(level)].rows, pre.idx,
                                       parse_yyyymm(yyyymm)[1], bbox_from_str(bbox),
                                       limit, offset)]
    /\ UNCHANGED <<datasets, dsBounds, features, tables,
                 imp, answered, cache, engineRuns, rebuilt>>

\* A call of drought_class(value).
DroughtClass(values) ==
    /\ resp = NoResp
    /\ \E value \in values :
          resp' = [op |-> "drought_class", value |-> value, out |-> drought_class(value)]
    /\ UNCHANGED <<datasets, dsBounds, features, tables, keyCache, idxCache,
                 imp, answered, cache, engineRuns, rebuilt>>

----------------------------------------------------------------------------
(* Specifications                                                          *)

\* The store after create_base_schema has run once (the registry exists and
\* is empty), the importer not running, the serving process just started.
Init ==
    /\ datasets = {}
    /\ dsBounds = EmptyMap
    /\ features = EmptyMap
    /\ tables = EmptyMap
    /\ cache = EmptyMap
    /\ engineRuns = {}
    /\ rebuilt = NULL
    /\ keyCache = EmptyMap
    /\ idxCache = EmptyMap
    /\ imp = ImpIdle("")
    /\ resp = NoResp
    /\ answered = {}

NextTrend == ClassifyTrend \/ MannKendallAndSen \/ Respond

SpecTrend == Init /\ [][NextTrend]_vars

\* Folder names and request keys that differ in letter case, need stripping,
\* or fail the key regex.
K_St == <<"S", "t">>
K_st == <<"s", "t">>
K_bad == <<"s", "-">>

KeyDirSets == {{K_St}, {K_st}, {K_St, K_st}, {K_bad}}

KeyInputs == {K_St, K_st, K_bad}

\* A geoinfo.geojson with the one feature f1, and one with f1 and f2.
G_f1 == ("f1" :> <<0, 0>>)
G_f1f2 == ("f1" :> <<0, 0>>) @@ ("f2" :> <<1, 0>>)

H_spi3 == <<n_id, n_date, n_spi3>>
H_spi6 == <<n_id, n_date, n_spi6>>
\* A header without index columns.
H_ids == <<n_id, n_date>>

FirstMonth == 2016 * 12

\* Imports of folders whose names collide in lower case, and key lookups.
NextKeys ==
    \/ ImportStart(KeyDirSets)
    \/ RegisterDataset({H_spi3})
    \/ CreateTsTable
    \/ IngestFeatures({G_f1})
    \/ IngestTimeseries({}, {}, {})
    \/ FinalizeBounds
    \/ PrecomputeDatasetTrends(FALSE)
    \/ ResolveDatasetKey(KeyInputs)
    \/ TsTable(KeyInputs)
    \/ ServerRestart
    \/ Respond

SpecKeys == Init /\ [][NextKeys]_vars

\* Longest raw key handed to the key validators.
MaxKeyLen == 3

\* Characters of raw keys: letters of both cases, a digit, the underscore,
\* a blank and a hyphen.
KeyAlphabet == {"S", "t", "3", "_", " ", "-"}

RawKeys == SeqsUpTo(KeyAlphabet, MaxKeyLen)

\* Calls of the two key validators on raw strings.
NextValidate ==
    \/ ValidateDatasetKey(RawKeys)
    \/ SafeDatasetKey(RawKeys)
    \/ Respond

SpecValidate == Init /\ [][NextValidate]_vars

IndexInputs ==
    {n_spi3, <<"S", "P", "I", "6">>, <<" ", "s", "p", "i", "3">>, n_date, <<>>}

\* Imports of one dataset whose header changes, and index-name validation.
NextIndex ==
    \/ ImportStart({{K_st}})
    \/ RegisterDataset({H_spi3, H_spi6, H_ids})
    \/ CreateTsTable
    \/ IngestFeatures({G_f1})
    \/ IngestTimeseries({"f1"}, {FirstMonth}, {Some(500)})
    \/ FinalizeBounds
    \/ PrecomputeDatasetTrends(FALSE)
    \/ ImportDone
    \/ ValidateIndexName({K_st, K_bad}, IndexInputs)
    \/ ServerRestart
    \/ Respond

SpecIndex == Init /\ [][NextIndex]_vars

\* Months of the series tables of the read specifications.
NumMonths == 3

QueryMonths == FirstMonth..(FirstMonth + NumMonths - 1)

RequestMonths == (FirstMonth - 1)..(FirstMonth + NumMonths)

KpiDates == {<<>>, <<2016, 13>>} \cup {YearMonth(m) : m \in RequestMonths}

QueryVals == {NULL, Some(-1200), Some(500)}

KpiResults ==
    {[Tau |-> 1000, p |-> 10, slope |-> 5, trend |-> "increasing"],
     [Tau |-> 0, p |-> 51, slope |-> 0, trend |-> "no trend"]}

\* Imports of one dataset with one index column, and the per-feature reads.
NextQuery ==
    \/ ImportStart({{K_st}})
    \/ RegisterDataset({H_spi3})
    \/ CreateTsTable
    \/ IngestFeatures({G_f1})
    \/ IngestTimeseries({"f1"}, QueryMonths, QueryVals)
    \/ FinalizeBounds
    \/ PrecomputeDatasetTrends(FALSE)
    \/ FetchTimeseriesFull({K_st}, {"f1"}, {n_spi3})
    \/ FindEffectiveMonthForValue({K_st}, {"f1"}, {n_spi3}, RequestMonths)
    \/ GetKpi({K_st}, {"f1"}, {n_spi3}, KpiDates, KpiResults)
    \/ FetchTrendStatsAll({K_st}, {n_spi3}, KpiResults)
    \/ Respond

SpecQuery == Init /\ [][NextQuery]_vars

\* Months of the series tables of the fallback specifications: enough for a
\* gap of two months between two values.
NumGapMonths == 4

GapMonths == FirstMonth..(FirstMonth + NumGapMonths - 1)

GapRequests == (FirstMonth - 1)..(FirstMonth + NumGapMonths)

GapVals == {NULL, Some(500)}

\* Imports of one dataset whose feature has gaps, and the effective month of
\* every month around them.
NextFallback ==
    \/ ImportStart({{K_st}})
    \/ RegisterDataset({H_spi3})
    \/ CreateTsTable
    \/ IngestFeatures({G_f1})
    \/ IngestTimeseries({"f1"}, GapMonths, GapVals)
    \/ FinalizeBounds
    \/ PrecomputeDatasetTrends(FALSE)
    \/ FindEffectiveMonthForValue({K_st}, {"f1"}, {n_spi3}, GapRequests)
    \/ Respond

SpecFallback == Init /\ [][NextFallback]_vars

\* The same system when it never stops: some request or importer step is
\* taken as long as one is possible.
SpecFallbackLive == SpecFallback /\ WF_vars(NextFallback)

\* Features and values of the overview specification: both sides of every
\* bucket boundary, and an empty field.
OverviewFids == {"f1", "f2"}

OverviewVals ==
    {NULL, Some(0), Some(-1), Some(-800), Some(-801), Some(-1300), Some(-1301),
     Some(-1600), Some(-1601), Some(-2000), Some(-2001)}

OverviewDates == {<<2016, 1>>, <<2016, 2>>, <<2016, 13>>}

\* Imports of one dataset with two features in one month, the overview counts
\* and the severity class of single values.
NextOverview ==
    \/ ImportStart({{K_st}})
    \/ RegisterDataset({H_spi3})
    \/ CreateTsTable
    \/ IngestFeatures({G_f1})
    \/ IngestTimeseries(OverviewFids, {FirstMonth}, OverviewVals)
    \/ FinalizeBounds
    \/ PrecomputeDatasetTrends(FALSE)
    \/ FetchOverviewCounts({K_st}, {n_spi3}, OverviewDates)
    \/ DroughtClass({v[1] : v \in OverviewVals \ {NULL}})
    \/ Respond

SpecOverview == Init /\ [][NextOverview]_vars

\* Inputs of the map specification: up to three point features, one month of
\* series rows for two of them, and viewports that hold one, two or all of
\* the features, one of them given with its corners inverted, one malformed.
G_f1f2f3 == ("f1" :> <<0, 0>>) @@ ("f2" :> <<1, 0>>) @@ ("f3" :> <<2, 1>>)

MapVals == {NULL, Some(500)}

MapDates == {<<2016, 1>>, <<2016, 2>>, <<2016, 13>>}

MapBboxes == {<<>>, <<0, 0, 0, 0>>, <<1, 0, 0, 0>>, <<0, 0, 1>>}

MapLimits == 0..3

MapOffsets == 0..2

\* Imports of one dataset with up to three features, and the map query.
NextMap ==
    \/ ImportStart({{K_st}})
    \/ RegisterDataset({H_spi3})
    \/ CreateTsTable
    \/ IngestFeatures({G_f1, G_f1f2, G_f1f2f3})
    \/ IngestTimeseries({"f1", "f2"}, {FirstMonth}, MapVals)
    \/ FinalizeBounds
    \/ PrecomputeDatasetTrends(FALSE)
    \/ FetchFeaturesGeojson({K_st}, {n_spi3}, MapDates, MapBboxes, MapLimits, MapOffsets)
    \/ Respond

SpecMap == Init /\ [][NextMap]_vars

\* Inputs of the rebuild specification: files for one or two features over
\* two months.
RebuildMonths == {FirstMonth, FirstMonth + 1}

RebuildVals == {Some(500)}

\* Replace and merge runs over one dataset, with and without an index
\* column, the end of every --replace run observed; no reader runs.
NextRebuild ==
    \/ ImportStart({{K_st}})
    \/ RegisterDataset({H_spi3, H_ids})
    \/ CreateTsTable
    \/ IngestFeatures({G_f1, G_f1f2})
    \/ IngestTimeseries({"f1", "f2"}, RebuildMonths, RebuildVals)
    \/ FinalizeBounds
    \/ PrecomputeDatasetTrends(TRUE)
    \/ RebuildDone

SpecRebuild == Init /\ [][NextRebuild]_vars

\* Inputs of the cache specification: one feature with a value in the first
\* month, and requests for that month and the next.
CacheDates == {<<2016, 1>>, <<2016, 2>>}

CacheResults == {[Tau |-> 1000, p |-> 10, slope |-> 5, trend |-> "increasing"]}

\* Imports of one dataset and the cached endpoints that report trends.
NextCache ==
    \/ ImportStart({{K_st}})
    \/ RegisterDataset({H_spi3})
    \/ CreateTsTable
    \/ IngestFeatures({G_f1})
    \/ IngestTimeseries({"f1"}, {FirstMonth}, RebuildVals)
    \/ FinalizeBounds
    \/ PrecomputeDatasetTrends(FALSE)
    \/ KpiEndpoint({K_st}, {"f1"}, {n_spi3}, CacheDates, CacheResults)
    \/ MapdataEndpoint({K_st}, {n_spi3}, CacheDates, {<<>>}, {2}, {0}, CacheResults)
    \/ CacheExpire
    \/ Respond

SpecCache == Init /\ [][NextCache]_vars

\* Headers of the header specification: without a date column, with a column
\* name that is not made of letters, digits and underscore, with a column
\* named year beside the date column, and with the same column twice.
H_nodate == <<n_id, n_spi3>>
H_unsafe == <<n_id, n_date, <<"s", "p", "-", "i">>>>
H_year == <<n_id, n_date, n_year, n_spi3>>
H_twice == <<n_id, n_date, n_spi3, <<"S", "P", "I", "3">>>>

HeaderInputs == {H_spi3, H_ids, H_nodate, H_unsafe, H_year, H_twice}

\* Replace and merge runs over one dataset whose data.csv has any of the
\* headers, and a reader of the series.
NextHeaders ==
    \/ ImportStart({{K_st}})
    \/ RegisterDataset(HeaderInputs)
    \/ CreateTsTable
    \/ IngestFeatures({G_f1})
    \/ IngestTimeseries({"f1"}, {FirstMonth}, {Some(500)})
    \/ FinalizeBounds
    \/ PrecomputeDatasetTrends(FALSE)
    \/ ImportDone
    \/ FetchTimeseriesFull({K_st}, {"f1"}, {n_spi3})
    \/ Respond

SpecHeaders == Init /\ [][NextHeaders]_vars

\* Inputs of the row specification: a header for each date representation,
\* files of up to MaxRows rows with or without an id, and date cells that
\* are empty or unparseable, a month start, a day inside a month, a month
\* outside 1..12, a year of five digits, a year-month code that is too short.
MaxRows == 2

H_ym == <<n_id, n_year, n_month, n_spi3>>
H_yyyymm == <<n_id, n_yyyymm, n_spi3>>

RowIds == {NULL, Some("f1")}

RowCells ==
    [date   |-> {NULL, <<2016, 1, 1>>, <<2016, 1, 15>>, <<2016, 2, 1>>},
     ym     |-> {<<Some(2016), Some(1)>>, <<Some(2016), Some(2)>>,
                 <<Some(2016), Some(13)>>, <<Some(2016), NULL>>, <<NULL, Some(1)>>,
                 <<Some(20160), Some(1)>>},
     yyyymm |-> {<<"2", "0", "1", "6", "0", "1">>, <<"2", "0", "1", "6", "0", "2">>,
                 <<"2", "0", "1", "6", "1", "3">>, <<"2", "0", "1", "6">>}]

\* Replace and merge runs over one dataset, the CSV in any of the three date
\* representations.
NextRows ==
    \/ ImportStart({{K_st}})
    \/ RegisterDataset({H_spi3, H_ym, H_yyyymm})
    \/ CreateTsTable
    \/ IngestFeatures({G_f1})
    \/ IngestTimeseriesRaw(RowIds, RowCells, {Some(500)}, MaxRows)
    \/ FinalizeBounds
    \/ PrecomputeDatasetTrends(FALSE)

SpecRows == Init /\ [][NextRows]_vars


----------------------------------------------------------------------------
(* Claims about the trend engine, under SpecTrend                          *)

\* C9: classify_trend maps every (slope, p-value) pair to exactly one
\* category at significance level 0.05: p > 0.05 gives none whatever the
\* slope; p <= 0.05 (0.05 included) gives inc for a positive slope, dec for a
\* negative slope and none for a zero slope.
C9_ClassifyTrend ==
    (resp.op = "classify_trend" /\ resp.sen_slope # NULL /\ resp.p_value # NULL) =>
        LET c == resp.out.trend_category
            s == resp.sen_slope[1]
            p == resp.p_value[1]
        IN  /\ c \in {"none", "inc", "dec"}
            /\ (p > 50) => c = "none"
            /\ (p <= 50 /\ s > 0) => c = "inc"
            /\ (p <= 50 /\ s < 0) => c = "dec"
            /\ (p <= 50 /\ s = 0) => c = "none"

\* A call with p exactly 0.05 and a positive slope, classified inc.
C9_Witness ==
    /\ resp.op = "classify_trend"
    /\ resp.p_value = Some(50)
    /\ resp.sen_slope = Some(5)
    /\ resp.out.trend_category = "inc"

\* C10: every result of mann_kendall_and_sen, the degenerate result for fewer
\* than 2 values included, carries a trend_category that is one of none, inc,
\* dec.
C10_EveryResultHasCategory ==
    resp.op = "mann_kendall_and_sen" =>
        /\ "trend_category" \in DOMAIN resp.out
        /\ resp.out.trend_category \in {"none", "inc", "dec"}

----------------------------------------------------------------------------
(* Claims about the lookups                                                *)

\* C1: for every dataset key K registered in the store and its lower-cased
\* form k, resolve_dataset_key(K) and resolve_dataset_key(k) return the same
\* stored key, and the table name _ts_table builds for either is ts_<k>.
C1_CaseInsensitiveResolve ==
    /\ \A K \in datasets : \A a, b \in answered :
          (a[1] = K /\ b[1] = Lower(K)) => a[2] = b[2]
    /\ (resp.op = "_ts_table" /\ \E K \in datasets : resp.arg \in {K, Lower(K)}) =>
          resp.out = <<"t", "s", "_">> \o Lower(resp.arg)

\* C2: validate_index_name fails with the unknown-index error for every name
\* that is not an index column of the dataset's series table, and a name it
\* returns is the lower-cased request and a column of that table.
C2_ValidateIndexName ==
    (resp.op = "validate_index_name" /\ resp.err # "Invalid dataset key") =>
        LET table   == <<"t", "s", "_">> \o Lower(Strip(resp.dataset_key))
            actual  == IF table \in DOMAIN tables THEN tables[table].cols ELSE {}
            request == Lower(Strip(resp.index))
        IN  /\ request \notin actual => resp.err = "Unknown index"
            /\ resp.err = "" => (resp.idx = request /\ resp.idx \in actual)

\* The string consists only of letters, digits and underscores, and is not
\* empty.
OnlyWordChars(str) ==
    str # <<>> /\ \A i \in DOMAIN str : str[i] \in {"S", "t", "3", "_"}

\* The string with each upper-case letter replaced by its lower-case letter.
LowerCased(str) == [i \in DOMAIN str |-> IF str[i] = "S" THEN "s" ELSE str[i]]

\* C13 as stated: the key validators accept a raw string exactly when it is
\* non-empty and consists only of letters, digits and underscore, fail with
\* the invalid-identifier error otherwise, and the canonical key is the
\* lower-cased accepted key.
C13_AcceptsExactlyWordStrings ==
    resp.op \in {"_validate_dataset_key", "safe_dataset_key"} =>
        /\ resp.err = "" <=> OnlyWordChars(resp.arg)
        /\ resp.err # "" => resp.err \in {"Invalid dataset key", "Unsafe dataset key"}
        /\ (resp.err = "" /\ resp.op = "_validate_dataset_key") =>
              resp.canonical = LowerCased(resp.out)

\* C13: the key validators strip surrounding whitespace first: a raw string
\* is accepted exactly when what is left between its leading and trailing
\* blanks is non-empty and consists only of letters, digits and underscore;
\* the accepted key is that stripped string, every other string fails with
\* the invalid-identifier error, and the canonical key is the lower-cased
\* accepted key.
C13_AcceptsStrippedWordStrings ==
    resp.op \in {"_validate_dataset_key", "safe_dataset_key"} =>
        LET arg == resp.arg
            cores == {c \in (1..Len(arg)) \X (1..Len(arg)) :
                        /\ c[1] <= c[2]
                        /\ \A i \in 1..(c[1] - 1) : arg[i] = " "
                        /\ \A i \in (c[2] + 1)..Len(arg) : arg[i] = " "
                        /\ OnlyWordChars(SubSeq(arg, c[1], c[2]))}
        IN  /\ resp.err = "" <=> cores # {}
            /\ resp.err = "" => \E c \in cores : resp.out = SubSeq(arg, c[1], c[2])
            /\ resp.err # "" =>
                  resp.err \in {"Invalid dataset key", "Unsafe dataset key"}
            /\ (resp.err = "" /\ resp.op = "_validate_dataset_key") =>
                  resp.canonical = LowerCased(resp.out)

\* A raw key with a leading blank is accepted as the key without the blank.
C13_Witness ==
    /\ resp.op = "_validate_dataset_key"
    /\ resp.arg = <<" ", "S", "t">>
    /\ resp.err = ""
    /\ resp.out = <<"S", "t">>
    /\ resp.canonical = <<"s", "t">>


----------------------------------------------------------------------------
(* Claims about the per-feature reads, under SpecQuery                     *)

\* The months of feature fid that hold a non-null value of column idx.
CoveredMonths(rows, fid, idx) ==
    {m \in QueryMonths : <<fid, m>> \in DOMAIN rows /\ rows[<<fid, m>>][idx] # NULL}

\* The store of the worked example: feature f1 of dataset st has rows for
\* January, February and March 2016, and spi3 is present only in February,
\* where it is -1.2.
ExampleStore ==
    /\ ts_table(K_st) \in DOMAIN tables
    /\ LET rows == tables[ts_table(K_st)].rows
       IN  /\ DOMAIN rows = {"f1"} \X {FirstMonth, FirstMonth + 1, FirstMonth + 2}
           /\ rows[<<"f1", FirstMonth>>][n_spi3] = NULL
           /\ rows[<<"f1", FirstMonth + 1>>][n_spi3] = Some(-1200)
           /\ rows[<<"f1", FirstMonth + 2>>][n_spi3] = NULL

\* C3: for a feature whose non-null values of the index span [minMonth,
\* maxMonth], fetch_timeseries_full returns exactly one entry per calendar
\* month of that closed range in ascending order, with value null for a month
\* that has no source row; with no non-null value the series is empty and
\* both bounds are null.
C3_OneEntryPerMonth ==
    (resp.op = "fetch_timeseries_full" /\ resp.err = "") =>
        LET rows    == tables[ts_table(resp.dataset_key)].rows
            fid     == resp.feature_id
            idx     == Lower(Strip(resp.index))
            covered == CoveredMonths(rows, fid, idx)
            data    == resp.out.data
        IN  IF covered = {}
            THEN data = <<>> /\ resp.out.min_month = NULL /\ resp.out.max_month = NULL
            ELSE /\ resp.out.min_month = Some(YearMonth(Min(covered)))
                 /\ resp.out.max_month = Some(YearMonth(Max(covered)))
                 /\ Len(data) = Max(covered) - Min(covered) + 1
                 /\ \A i \in DOMAIN data :
                       LET m == Min(covered) + i - 1
                       IN  /\ data[i].date = <<m \div 12, (m % 12) + 1, 1>>
                           /\ <<fid, m>> \notin DOMAIN rows => data[i].value = NULL
                           /\ <<fid, m>> \in DOMAIN rows =>
                                 data[i].value = rows[<<fid, m>>][idx]

\* A series over January to March 2016 whose February has no source row.
C3_Witness ==
    /\ resp.op = "fetch_timeseries_full"
    /\ resp.err = ""
    /\ Len(resp.out.data) = 3
    /\ <<"f1", FirstMonth + 1>> \notin DOMAIN tables[ts_table(K_st)].rows
    /\ resp.out.data[2] = [date |-> <<2016, 2, 1>>, value |-> NULL]

\* C4 as stated: in the worked example fetch_timeseries_full returns the
\* three entries [{2016-01, null}, {2016-02, -1.2}, {2016-03, null}].
C4_ThreeEntries ==
    (resp.op = "fetch_timeseries_full" /\ resp.err = "" /\ ExampleStore) =>
        resp.out.data = <<[date |-> <<2016, 1, 1>>, value |-> NULL],
                          [date |-> <<2016, 2, 1>>, value |-> Some(-1200)],
                          [date |-> <<2016, 3, 1>>, value |-> NULL]>>

\* C4: in the worked example fetch_timeseries_full returns the single entry
\* {2016-02, -1.2} with both bounds 2016-02: the range spans the months with
\* a non-null value, so leading and trailing null months are left out.
C4_OnlyFebruary ==
    (resp.op = "fetch_timeseries_full" /\ resp.err = "" /\ ExampleStore) =>
        /\ resp.out.data = <<[date |-> <<2016, 2, 1>>, value |-> Some(-1200)]>>
        /\ resp.out.min_month = Some(<<2016, 2>>)
        /\ resp.out.max_month = Some(<<2016, 2>>)

\* The series of the worked example was fetched.
C4_Witness ==
    /\ resp.op = "fetch_timeseries_full"
    /\ resp.err = ""
    /\ ExampleStore

\* C5 as stated: in the worked example find_effective_month_for_value for
\* 2016-01 returns (2016-02, -1.2, "nearest-next").
C5_NearestNext ==
    (/\ resp.op = "find_effective_month_for_value"
     /\ resp.err = ""
     /\ resp.requested = FirstMonth
     /\ ExampleStore) =>
        resp.out = [date |-> FirstMonth + 1, value |-> Some(-1200),
                    note |-> Some("nearest-next")]

\* C5: in the worked example find_effective_month_for_value for 2016-01
\* returns (2016-02, -1.2, "clamped-to-start"): 2016-01 lies before the first
\* month with a value, so it is clamped to that month, which has a value.
C5_ClampedToStart ==
    (/\ resp.op = "find_effective_month_for_value"
     /\ resp.err = ""
     /\ resp.requested = FirstMonth
     /\ ExampleStore) =>
        resp.out = [date |-> FirstMonth + 1, value |-> Some(-1200),
                    note |-> Some("clamped-to-start")]

\* The effective month of 2016-01 was asked for in the worked example.
C5_Witness ==
    /\ resp.op = "find_effective_month_for_value"
    /\ resp.err = ""
    /\ resp.requested = FirstMonth
    /\ ExampleStore

\* C6: for every requested month that has a non-null value for the feature
\* and index, find_effective_month_for_value returns the requested month,
\* that month's value and no note.
C6_IdempotentOnPresent ==
    (resp.op = "find_effective_month_for_value" /\ resp.err = "") =>
        LET rows == tables[ts_table(resp.dataset_key)].rows
            idx  == Lower(Strip(resp.index))
            cell == <<resp.feature_id, resp.requested>>
        IN  (cell \in DOMAIN rows /\ rows[cell][idx] # NULL) =>
                /\ resp.out.date = resp.requested
                /\ resp.out.value = rows[cell][idx]
                /\ resp.out.note = NULL

\* The first month with a value was requested, a later month has another
\* value, and the answer is the requested month itself.
C6_Witness ==
    /\ resp.op = "find_effective_month_for_value"
    /\ resp.err = ""
    /\ resp.requested = FirstMonth
    /\ resp.out = [date |-> FirstMonth, value |-> Some(500), note |-> NULL]
    /\ <<"f1", FirstMonth + 1>> \in DOMAIN tables[ts_table(K_st)].rows
    /\ tables[ts_table(K_st)].rows[<<"f1", FirstMonth + 1>>][n_spi3] = Some(-1200)

\* C7: whenever the feature has at least one non-null value of the index,
\* find_effective_month_for_value returns, for every requested month, a
\* non-null value and an effective month whose row holds that value, and the
\* KPI of every parsed month is not the empty "No series found" answer.
C7_NeverEmpty ==
    (resp.op \in {"find_effective_month_for_value", "get_kpi"} /\ resp.err = "") =>
        LET rows == tables[ts_table(resp.dataset_key)].rows
            fid  == resp.feature_id
            idx  == Lower(Strip(resp.index))
        IN  CoveredMonths(rows, fid, idx) # {} =>
               IF resp.op = "get_kpi"
               THEN "error" \notin DOMAIN resp.out
               ELSE /\ resp.out.value # NULL
                    /\ <<fid, resp.out.date>> \in DOMAIN rows
                    /\ rows[<<fid, resp.out.date>>][idx] = resp.out.value

\* The requested month lies in a gap: its row has an empty field, and the
\* answer is the value of the month before it.
C7_Witness ==
    /\ resp.op = "find_effective_month_for_value"
    /\ resp.err = ""
    /\ resp.requested = FirstMonth + 1
    /\ <<"f1", FirstMonth + 1>> \in DOMAIN tables[ts_table(K_st)].rows
    /\ tables[ts_table(K_st)].rows[<<"f1", FirstMonth + 1>>][n_spi3] = NULL
    /\ resp.out.date = FirstMonth
    /\ resp.out.value = Some(500)

\* The non-null values of the feature's index over all months, oldest first.
FullHistory(rows, fid, idx) ==
    LET months == [i \in 1..NumMonths |-> FirstMonth + i - 1]
        held   == SelectSeq(months, LAMBDA m : m \in CoveredMonths(rows, fid, idx))
    IN  [i \in DOMAIN held |-> rows[<<fid, held[i]>>][idx][1]]

\* C11: whatever month the request selects (or none), the trend statistics
\* of a feature come from a run of the trend engine on the feature's full
\* non-null history, never on the values up to the selected or effective
\* month; the same holds for every entry of fetch_trend_stats_all.
C11_TrendFromFullHistory ==
    /\ (resp.op = "get_kpi" /\ resp.err = "" /\ resp.engine_input # NULL) =>
          LET rows == tables[ts_table(resp.dataset_key)].rows
              idx  == Lower(Strip(resp.index))
          IN  /\ resp.engine_input[1] = FullHistory(rows, resp.feature_id, idx)
              /\ \E result \in KpiResults :
                    resp.out.trend = mann_kendall_and_sen(resp.engine_input[1], result)
    /\ (resp.op = "fetch_trend_stats_all" /\ resp.err = "") =>
          LET rows == tables[ts_table(resp.dataset_key)].rows
              idx  == Lower(Strip(resp.index))
          IN  \A fid \in {"f1"} :
                 IF FullHistory(rows, fid, idx) = <<>>
                 THEN fid \notin DOMAIN resp.out
                 ELSE /\ fid \in DOMAIN resp.out
                      /\ resp.engine_input[fid] = FullHistory(rows, fid, idx)

\* The KPI of January 2016 for a feature with values in January, February
\* and March: the summary stops at January, the trend input has all three.
C11_Witness ==
    /\ resp.op = "get_kpi"
    /\ resp.err = ""
    /\ resp.date = <<2016, 1>>
    /\ resp.engine_input = Some(<<-1200, 500, -1200>>)
    /\ resp.out.effective_month = Some(<<2016, 1>>)
    /\ resp.out.mean[2] = 1


----------------------------------------------------------------------------
(* Claims about the fallback chain, under SpecFallback                     *)

\* The months in which the feature holds a non-null value of the index.
MonthsHolding(rows, fid, idx) ==
    {c[2] : c \in {d \in DOMAIN rows : d[1] = fid /\ rows[d][idx] # NULL}}

\* The requested month moved to the nearest bound of the months holding a
\* value.
ClampedMonth(requested, holding) ==
    IF \A m \in holding : requested < m
    THEN CHOOSE m \in holding : \A n \in holding : m <= n
    ELSE IF \A m \in holding : requested > m
    THEN CHOOSE m \in holding : \A n \in holding : m >= n
    ELSE requested

TaggedPrevious ==
    {Some("nearest-previous"), Some("clamped-to-start;nearest-previous"),
     Some("clamped-to-end;nearest-previous")}

TaggedNext ==
    {Some("nearest-next"), Some("clamped-to-start;nearest-next"),
     Some("clamped-to-end;nearest-next")}

\* C14: when the (possibly clamped) month has no non-null value, the result
\* is the latest earlier month holding a value, tagged nearest-previous,
\* whenever such a month exists, even if a later month is closer; the
\* earliest later month, tagged nearest-next, is returned only when no
\* earlier month holds a value.
C14_PreviousBeforeNext ==
    (resp.op = "find_effective_month_for_value" /\ resp.err = "") =>
        LET rows    == tables[ts_table(resp.dataset_key)].rows
            holding == MonthsHolding(rows, resp.feature_id, Lower(Strip(resp.index)))
            eff     == ClampedMonth(resp.requested, holding)
            earlier == {m \in holding : m < eff}
            later   == {m \in holding : m > eff}
        IN  /\ (holding # {} /\ eff \notin holding /\ earlier # {}) =>
                  /\ resp.out.date \in earlier
                  /\ \A m \in earlier : m <= resp.out.date
                  /\ resp.out.value = rows[<<resp.feature_id, resp.out.date>>][
                                           Lower(Strip(resp.index))]
                  /\ resp.out.note \in TaggedPrevious
            /\ (holding # {} /\ eff \notin holding /\ earlier = {} /\ later # {}) =>
                  /\ resp.out.date \in later
                  /\ \A m \in later : m >= resp.out.date
                  /\ resp.out.note \in TaggedNext
            /\ resp.out.note \in TaggedNext => (holding # {} /\ earlier = {})

\* Values in January and April 2016 only; March is requested: the answer is
\* January, two months away, though April is one month away.
C14_Witness ==
    /\ resp.op = "find_effective_month_for_value"
    /\ resp.err = ""
    /\ MonthsHolding(tables[ts_table(K_st)].rows, "f1", n_spi3)
          = {FirstMonth, FirstMonth + 3}
    /\ resp.requested = FirstMonth + 2
    /\ resp.out = [date |-> FirstMonth, value |-> Some(500),
                   note |-> Some("nearest-previous")]

\* C15 as stated: when no month of the feature holds a non-null value of the
\* index, find_effective_month_for_value returns a null value with the tag
\* no-value.
C15_NoValueTag ==
    (resp.op = "find_effective_month_for_value" /\ resp.err = "") =>
        LET rows == tables[ts_table(resp.dataset_key)].rows
        IN  MonthsHolding(rows, resp.feature_id, Lower(Strip(resp.index))) = {} =>
               (resp.out.value = NULL /\ resp.out.note = Some("no-value"))

\* C15: when no month of the feature holds a non-null value of the index,
\* find_effective_month_for_value returns the requested month, a null value
\* and the tag no-data; the tag no-value is never returned.
C15_NoDataTag ==
    (resp.op = "find_effective_month_for_value" /\ resp.err = "") =>
        LET rows == tables[ts_table(resp.dataset_key)].rows
        IN  /\ MonthsHolding(rows, resp.feature_id, Lower(Strip(resp.index))) = {} =>
                  resp.out = [date |-> resp.requested, value |-> NULL,
                              note |-> Some("no-data")]
            /\ resp.out.note \notin {Some("no-value"), Some("clamped-to-start;no-value"),
                                     Some("clamped-to-end;no-value")}

\* The feature has rows, every one with an empty field, and March 2016 is
\* requested.
C15_Witness ==
    /\ resp.op = "find_effective_month_for_value"
    /\ resp.err = ""
    /\ resp.requested = FirstMonth + 2
    /\ <<"f1", FirstMonth + 2>> \in DOMAIN tables[ts_table(K_st)].rows
    /\ MonthsHolding(tables[ts_table(K_st)].rows, "f1", n_spi3) = {}
    /\ resp.out.note = Some("no-data")

ComposedNotes ==
    {Some("clamped-to-start;nearest-previous"), Some("clamped-to-start;nearest-next"),
     Some("clamped-to-start;no-value"), Some("clamped-to-end;nearest-previous"),
     Some("clamped-to-end;nearest-next"), Some("clamped-to-end;no-value")}

----------------------------------------------------------------------------
(* Claims about the overview, under SpecOverview                           *)

\* C8: fetch_overview_counts counts every non-null value of the requested
\* month in exactly one of the six buckets with half-open boundaries (>= 0
\* Normal/Wet, [-0.8, 0) D0, [-1.3, -0.8) D1, [-1.6, -1.3) D2, [-2.0, -1.6)
\* D3, < -2.0 D4), so -0.8 is D0 and -0.801 is D1, and the six counts sum to
\* with_value; drought_class names the same bucket for a single value.
C8_OverviewBuckets ==
    /\ (resp.op = "fetch_overview_counts" /\ resp.err = "") =>
          LET rows == tables[ts_table(resp.dataset_key)].rows
              idx  == Lower(Strip(resp.index))
              m    == resp.date[1] * 12 + resp.date[2] - 1
              vals == {c \in DOMAIN rows : c[2] = m /\ rows[c][idx] # NULL}
              v(c) == rows[c][idx][1]
              o    == resp.out
          IN  /\ o.with_value = Cardinality(vals)
              /\ o.normal_wet = Cardinality({c \in vals : v(c) >= 0})
              /\ o.D0 = Cardinality({c \in vals : -800 <= v(c) /\ v(c) < 0})
              /\ o.D1 = Cardinality({c \in vals : -1300 <= v(c) /\ v(c) < -800})
              /\ o.D2 = Cardinality({c \in vals : -1600 <= v(c) /\ v(c) < -1300})
              /\ o.D3 = Cardinality({c \in vals : -2000 <= v(c) /\ v(c) < -1600})
              /\ o.D4 = Cardinality({c \in vals : v(c) < -2000})
              /\ o.normal_wet + o.D0 + o.D1 + o.D2 + o.D3 + o.D4 = o.with_value
    /\ resp.op = "drought_class" =>
          /\ resp.value = -800 => resp.out = "D0"
          /\ resp.value = -801 => resp.out = "D1"
          /\ resp.out = "Normal/Wet" <=> resp.value >= 0
          /\ resp.out = "D0" <=> (-800 <= resp.value /\ resp.value < 0)
          /\ resp.out = "D1" <=> (-1300 <= resp.value /\ resp.value < -800)
          /\ resp.out = "D2" <=> (-1600 <= resp.value /\ resp.value < -1300)
          /\ resp.out = "D3" <=> (-2000 <= resp.value /\ resp.value < -1600)
          /\ resp.out = "D4" <=> resp.value < -2000

\* A month whose two features hold -0.8 and -0.801: one D0, one D1.
C8_Witness ==
    /\ resp.op = "fetch_overview_counts"
    /\ resp.err = ""
    /\ {tables[ts_table(K_st)].rows[c][n_spi3] : c \in DOMAIN tables[ts_table(K_st)].rows}
          = {Some(-800), Some(-801)}
    /\ resp.out.with_value = 2
    /\ resp.out.D0 = 1
    /\ resp.out.D1 = 1

----------------------------------------------------------------------------
(* The map query                                                           *)

\* The features of the dataset a map response is about: those stored under
\* the resolved key whose point lies in the requested box. A box given with
\* inverted corners is the box between them; a bbox parameter that is absent
\* or has not four parts is no box.
InRequestedBox(geom, bbox) ==
    \/ Len(bbox) # 4
    \/ /\ (bbox[1] <= geom[1] /\ geom[1] <= bbox[3])
          \/ (bbox[3] <= geom[1] /\ geom[1] <= bbox[1])
       /\ (bbox[2] <= geom[2] /\ geom[2] <= bbox[4])
          \/ (bbox[4] <= geom[2] /\ geom[2] <= bbox[2])

MatchingFeatures ==
    {c[2] : c \in {c \in DOMAIN features :
                      c[1] = resp.key /\ InRequestedBox(features[c].geom, resp.bbox)}}

MapAnswered == resp.op = "fetch_features_geojson" /\ resp.err = ""

\* C17: fetch_features_geojson returns meta.total equal to the number of
\* features of the dataset matching the bounding box exactly when offset is
\* 0 and a null total for every offset above 0; meta.truncated is true
\* exactly when the total is known and exceeds offset + returned, so no page
\* at an offset above 0 is flagged truncated.
C17_TotalOnlyAtOffsetZero ==
    MapAnswered =>
       LET meta == resp.out.meta
       IN  /\ resp.offset = 0 => meta.total = Some(Cardinality(MatchingFeatures))
           /\ resp.offset > 0 => meta.total = NULL
           /\ meta.returned = Len(resp.out.features)
           /\ meta.truncated <=>
                 (meta.total # NULL /\ meta.total[1] > resp.offset + meta.returned)
           /\ resp.offset > 0 => ~meta.truncated

\* C17 happens: a first page that leaves features out is flagged truncated,
\* and a later page over the same three features carries no total.
C17_Witness ==
    /\ MapAnswered
    /\ Cardinality(MatchingFeatures) = 3
    /\ \/ /\ resp.offset = 0 /\ resp.limit = 2
          /\ resp.out.meta.total = Some(3)
          /\ resp.out.meta.truncated
       \/ /\ resp.offset = 1 /\ resp.limit = 1
          /\ resp.out.meta.total = NULL
          /\ resp.out.meta.returned = 1

\* The value the series table of the dataset holds for a feature in the
\* requested month, NULL when there is no row or the row holds none.
StoredValue(fid) ==
    LET rows == tables[ts_table(resp.dataset_key)].rows
        cell == <<fid, parse_yyyymm(resp.date)[1]>>
    IN  IF cell \in DOMAIN rows THEN rows[cell][n_spi3] ELSE NULL

\* C18: fetch_features_geojson with offset 0 and a limit not smaller than
\* the number of matching features returns every feature of the dataset
\* (of the bounding box when one is given) exactly once, ordered by feature
\* id; a feature with no series row or a null value for the requested month
\* still appears, with value null.
C18_EveryFeatureOnce ==
    (MapAnswered /\ resp.offset = 0 /\ resp.limit >= Cardinality(MatchingFeatures)) =>
       LET fs == resp.out.features
       IN  /\ Len(fs) = Cardinality(MatchingFeatures)
           /\ {fs[i].id : i \in 1..Len(fs)} = MatchingFeatures
           /\ \A i, j \in 1..Len(fs) : i < j => FeatureIdLess(fs[i].id, fs[j].id)
           /\ \A i \in 1..Len(fs) : fs[i].value = StoredValue(fs[i].id)

\* C18 happens: three features are returned in order, the first with its
\* value, the second with a null value in its row, the third without a row.
C18_Witness ==
    /\ MapAnswered
    /\ resp.offset = 0 /\ resp.limit = 3 /\ resp.bbox = <<>>
    /\ Len(resp.out.features) = 3
    /\ resp.out.features[1].id = "f1" /\ resp.out.features[1].value = Some(500)
    /\ resp.out.features[2].id = "f2" /\ resp.out.features[2].value = NULL
    /\ <<"f2", FirstMonth>> \in DOMAIN tables[ts_table(resp.dataset_key)].rows
    /\ resp.out.features[3].id = "f3" /\ resp.out.features[3].value = NULL
    /\ resp.date = <<2016, 1>>

----------------------------------------------------------------------------
(* Rebuilds                                                                *)

\* The files a run has loaded when it has loaded all it will: its last
\* dataset is loaded, or the precompute step is about to end the run.
RunOver ==
    \/ imp.pc = "dataset" /\ imp.queue = <<>>
    \/ imp.pc = "precompute" /\ PrecomputeIndices(imp.key) # {}

RunRead == IF imp.pc = "precompute" THEN Append(imp.read, FilesRead) ELSE imp.read

\* A --replace run has loaded all it will and read the same files as the
\* last --replace run that got as far.
SecondRebuildComplete ==
    /\ RunOver /\ imp.replace
    /\ rebuilt # NULL
    /\ rebuilt[1].read = RunRead

\* C19: running the import in replace mode twice on identical input leaves,
\* after the second run, the same feature count, the same series row count
\* and the same dataset and per-feature bounds as after the first run.
C19_RebuildIdempotent ==
    SecondRebuildComplete => StoreSummary = rebuilt[1].summary

\* C19 happens: a second rebuild from the same files (one feature, two
\* months) completes and leaves one feature with its two rows and the bounds
\* of the two months.
C19_Witness ==
    /\ SecondRebuildComplete
    /\ Len(RunRead) = 1
    /\ RunRead[1].header = H_spi3
    /\ DOMAIN RunRead[1].geojson = {"f1"}
    /\ DOMAIN RunRead[1].csv = {<<"f1", FirstMonth>>, <<"f1", FirstMonth + 1>>}
    /\ StoreSummary.features = 1
    /\ StoreSummary.rows[FoldedTsName(K_st)] = 2
    /\ dsBounds[K_st] = [min_date |-> Some(FirstMonth), max_date |-> Some(FirstMonth + 1)]

\* C20: a merge run (no --replace) over a store that already holds the
\* dataset reuses the tables and upserts features and series rows, so
\* re-importing files whose (feature_id, month) rows exist completes and
\* never aborts on the existing rows: no run ends in a duplicate-key error
\* (the rows of one file are distinct, and a --replace run loads into an
\* empty table, so only a merge run could).
C20_MergeReimportCompletes == imp.err # "sql: duplicate key"

----------------------------------------------------------------------------
(* The result cache                                                        *)

\* C12: trend statistics of a (dataset, index, feature) are recomputed only
\* in response to new data or an explicit precompute pass: a request that
\* differs from an earlier request only in the selected month never triggers
\* a new run of the trend engine. Of the runs of the engine since the series
\* tables last changed, no two were triggered by requests that differ only
\* in the month.
C12_NoRunForAnotherMonth ==
    \A a, b \in engineRuns :
       (/\ a.endpoint = b.endpoint
        /\ a.dataset_key = b.dataset_key
        /\ a.index = b.index
        /\ a.feature_id = b.feature_id) => a.date = b.date

----------------------------------------------------------------------------
(* Failed runs                                                             *)

\* A step in which a --replace run fails.
ReplaceRunFails == imp.pc # "idle" /\ imp.replace /\ imp'.pc = "idle" /\ imp'.err # ""

\* C21: in replace mode, when a dataset's import fails (missing date column,
\* unsafe column name, bulk-load error), nothing destructive or partial has
\* been committed: readers never see a registered dataset without its series
\* table (nor dropped tables, nor a partially loaded series).
C21_FailedReplaceLeavesNoPartialState ==
    [][ReplaceRunFails =>
          \A d \in datasets' : FoldedTsName(d) \in DOMAIN tables']_vars

\* What the completed steps of the dataset a run is at have left in the
\* store: the registration, the series table, the features of the GeoJSON,
\* the rows of the CSV, the bounds.
Registered == imp.key \in datasets

TableCreated == FoldedTsName(imp.key) \in DOMAIN tables

FeaturesIngested == \A fid \in DOMAIN imp.geojson : <<imp.key, fid>> \in DOMAIN features

SeriesIngested == DOMAIN imp.csv \subseteq DOMAIN tables[FoldedTsName(imp.key)].rows

BoundsFinalized ==
    dsBounds[imp.key] = RowBounds(tables[FoldedTsName(imp.key)].rows, NULL)

StepsDone ==
    /\ imp.pc \in {"create_ts", "features", "ingest", "bounds", "precompute"} => Registered
    /\ imp.pc \in {"features", "ingest", "bounds", "precompute"} => TableCreated
    /\ imp.pc \in {"ingest", "bounds", "precompute"} => FeaturesIngested
    /\ imp.pc \in {"bounds", "precompute"} => SeriesIngested
    /\ imp.pc = "precompute" => BoundsFinalized

\* C22: import_one_dataset performs its steps in the order register,
\* create-schema, ingest-geometry, ingest-series, finalize-bounds,
\* precompute-trends, each starting only after the previous one has
\* completed; when a step raises, no later step of the dataset runs and the
\* import is aborted. Every step of the importer moves it to the next step
\* of this order with the earlier steps' work in the store, or ends the run
\* (as a step that raises does).
C22_StepsInOrder ==
    [][imp' # imp =>
          /\ \/ imp'.pc = "idle"
             \/ imp.pc = "idle" /\ imp'.pc = "dataset"
             \/ <<imp.pc, imp'.pc>> \in
                   {<<"dataset", "create_ts">>, <<"create_ts", "features">>,
                    <<"features", "ingest">>, <<"ingest", "bounds">>,
                    <<"bounds", "precompute">>, <<"precompute", "dataset">>}
          /\ StepsDone']_vars

\* C22 happens: ingest_timeseries raised in the first run over an empty
\* store, after the registration, the table and the features: the bounds
\* were never computed.
C22_Witness ==
    /\ imp.pc = "idle" /\ imp.err = "sql: column does not exist"
    /\ K_st \in datasets
    /\ <<K_st, "f1">> \in DOMAIN features
    /\ tables[FoldedTsName(K_st)].rows = EmptyMap
    /\ dsBounds[K_st] = [min_date |-> NULL, max_date |-> NULL]

----------------------------------------------------------------------------
(* Rows as they are written                                                *)

\* C23: ingest_timeseries drops every row whose identifier is missing or
\* whose date cannot be resolved to a valid month (unparseable date, month
\* outside 1..12 in year/month mode, malformed year-month code) and goes on
\* loading the remaining rows; such a row never aborts the import: no run
\* ends with the date of a row refused by the bulk load.
C23_BadRowNeverAborts == imp.err # "sql: invalid input syntax for type date"

\* The series table of the dataset the run is at.
RunTable == tables[FoldedTsName(imp.key)]

\* C25: after any sequence of import runs (replace or merge, any of the
\* three date representations), every row of a series table has a date that
\* is the first day of a month, and no two rows share (feature_id, date):
\* the rows a bulk load has put into the table all carry day 1, no two of
\* them have the same feature and date, and each is a row of the table.
C25_MonthStartsUnique ==
    (imp.pc \in {"bounds", "precompute"} /\ "copied" \in DOMAIN imp) =>
       /\ \A i \in DOMAIN imp.copied : imp.copied[i].date[3] = 1
       /\ \A i, j \in DOMAIN imp.copied :
             i < j => <<imp.copied[i].feature_id, imp.copied[i].date>>
                      # <<imp.copied[j].feature_id, imp.copied[j].date>>
       /\ \A i \in DOMAIN imp.copied :
             <<imp.copied[i].feature_id, MonthOf(imp.copied[i].date)>>
                \in DOMAIN RunTable.rows
       /\ Cardinality(DOMAIN imp.csv) = Len(imp.copied)

\* C25 happens: a merge run has added the row of February, written with
\* year and month, to a table that held the row of January.
C25_Witness ==
    /\ imp.pc = "bounds" /\ "copied" \in DOMAIN imp
    /\ ~imp.replace
    /\ imp.header = H_ym
    /\ Len(imp.copied) = 1
    /\ imp.copied[1].date = <<2016, 2, 1>>
    /\ DOMAIN RunTable.rows = {<<"f1", FirstMonth>>, <<"f1", FirstMonth + 1>>}

----------------------------------------------------------------------------
(* Column names in SQL                                                     *)

\* The name consists of letters, digits and underscores only.
WordOnly(name) == \A j \in DOMAIN name : IsWordChar(name[j])

\* C24: no string taken from a CSV header is interpolated as a column name
\* into a CREATE TABLE or COPY statement unless it consists only of letters,
\* digits and underscores; otherwise the import fails before any statement
\* that uses it: every column of every series table is such a name, and once
\* create_ts_table has returned, so is every name the COPY of that dataset
\* will list.
C24_OnlyWordColumnsInSql ==
    /\ \A t \in DOMAIN tables : \A c \in tables[t].cols : WordOnly(c)
    /\ imp.pc \in {"features", "ingest", "bounds", "precompute"} =>
          \A c \in Range(CopyColsOf(imp.index_cols)) : WordOnly(c)

\* C24 happens: a merge run over a header with the column sp-i has failed on
\* that name, and the table of the earlier import stands as it was.
C24_Witness ==
    /\ imp = ImpIdle("Unsafe column name in CSV header")
    /\ FoldedTsName(K_st) \in DOMAIN tables
    /\ tables[FoldedTsName(K_st)].cols = {n_spi3}

----------------------------------------------------------------------------
(* Coverage bounds                                                         *)

\* The feature ids of the features rows of a dataset.
FeaturesOf(key) == {cell[2] : cell \in {c \in DOMAIN features : c[1] = key}}

\* The roll-up of the bounds of the features of a dataset: the minimum of
\* their min_date and the maximum of their max_date, NULL when none has one.
FeatureBoundsRollUp(key) ==
    LET mins == {features[<<key, f>>].min_date[1] :
                    f \in {g \in FeaturesOf(key) : features[<<key, g>>].min_date # NULL}}
        maxs == {features[<<key, f>>].max_date[1] :
                    f \in {g \in FeaturesOf(key) : features[<<key, g>>].max_date # NULL}}
    IN  [min_date |-> IF mins = {} THEN NULL
                      ELSE Some(CHOOSE d \in mins : \A e \in mins : d <= e),
         max_date |-> IF maxs = {} THEN NULL
                      ELSE Some(CHOOSE d \in maxs : \A e \in maxs : d >= e)]

\* After finalize_bounds, every feature of the dataset has the earliest and
\* latest month among its rows of the series table as its bounds.
FeatureBoundsFromRows ==
    imp.pc = "precompute" =>
       \A f \in FeaturesOf(imp.key) :
          /\ features[<<imp.key, f>>].min_date = RowBounds(RunTable.rows, Some(f)).min_date
          /\ features[<<imp.key, f>>].max_date = RowBounds(RunTable.rows, Some(f)).max_date

\* C26: after finalize_bounds, every feature of the dataset has min_date and
\* max_date equal to the earliest and latest month among its rows in the
\* series table, and the dataset's min_date and max_date are the roll-up of
\* those feature bounds.
C26_DatasetBoundsRollUp ==
    /\ FeatureBoundsFromRows
    /\ imp.pc = "precompute" => dsBounds[imp.key] = FeatureBoundsRollUp(imp.key)

----------------------------------------------------------------------------
(* The lookup caches against a fresh process                               *)

\* What resolve_dataset_key(value) may return in a process started now, its
\* lru_cache empty.
FreshResolveOutcomes(value) ==
    IF validate_dataset_key(value) = <<>>
    THEN {[err |-> "Invalid dataset key", key |-> <<>>]}
    ELSE LET rows == {d \in datasets : Lower(d) = Lower(validate_dataset_key(value))}
         IN  IF rows = {} THEN {[err |-> "Dataset not found", key |-> <<>>]}
             ELSE {[err |-> "", key |-> d] : d \in rows}

\* What validate_index_name(dataset_key, index) returns in a process started
\* now, its lru_cache empty.
FreshValidateIndexName(dataset_key, index) ==
    IF validate_dataset_key(dataset_key) = <<>>
    THEN [err |-> "Invalid dataset key", idx |-> <<>>]
    ELSE LET idx     == Lower(Strip(index))
             allowed == InformationSchemaColumns(ts_table(dataset_key))
                        \ {n_feature_id, n_date}
         IN  IF idx \notin allowed THEN [err |-> "Unknown index", idx |-> <<>>]
             ELSE [err |-> "", idx |-> idx]

\* C27: a stale entry of the per-process lookup caches is harmless: after an
\* import changes the registry or the columns of a dataset, a reader in a
\* process that cached the earlier answer resolves keys and validates index
\* names with the same outcome as a freshly started process.
C27_StaleEntriesHarmless ==
    /\ resp.op = "validate_index_name" =>
          [err |-> resp.err, idx |-> resp.idx]
             = FreshValidateIndexName(resp.dataset_key, resp.index)
    /\ resp.op = "resolve_dataset_key" =>
          [err |-> resp.err, key |-> resp.key] \in FreshResolveOutcomes(resp.arg)

----------------------------------------------------------------------------
(* The last step, the columns of COPY, and the tables of the datasets      *)

\* C28: after finalize-bounds, the precompute-trends step runs the trend
\* engine once for every index column present in the dataset's series table
\* and persists the results, so a successful import always ends with trend
\* results stored: no run ends at the precompute step for want of the
\* function that computes and stores them.
C28_PrecomputePersistsTrends ==
    imp.err # "cannot import name precompute_trend_stats"

\* C29: for every CSV header accepted by import_one_dataset, the index
\* columns that create_ts_table creates are exactly the index columns that
\* ingest_timeseries names in its bulk-load statement.
C29_CopyNamesCreatedColumns ==
    imp.pc = "ingest" =>
       /\ Range(CopyColsOf(imp.index_cols)) = Range(SafeColsOf(imp.index_cols).cols)
       /\ Range(CopyColsOf(imp.index_cols)) \subseteq RunTable.cols

\* C30: two registered datasets never share a time-series table: after any
\* import run, datasets with different stored keys (keys that differ only in
\* letter case included) map to different ts_ tables, and
\* resolve_dataset_key returns, for every stored key, that same key.
C30_OneTablePerDataset ==
    /\ \A a, b \in datasets : a # b => FoldedTsName(a) # FoldedTsName(b)
    /\ \A d \in datasets : \A r \in FreshResolveOutcomes(d) : r.key = d

====
